---- MODULE Spec2Model ----
(***************************************************************************)
(* CHAD repo auditor (.github/scripts/repo_auditor.py): the staleness      *)
(* evaluator, the third-party service detector, the repo classifier and    *)
(* the audit orchestrator run_audit with its call budget; the cleanup      *)
(* agent (.github/scripts/cleanup_agent.py); the budget manager            *)
(* (.github/scripts/token_budget.py); the refreshes of the dashboard       *)
(* server (dashboard-server.py).                                           *)
(*                                                                         *)
(* Text is modelled by TLA+ strings, read character by character with Len  *)
(* and SubSeq.  Time is counted in ticks, TicksPerDay to the day.          *)
(***************************************************************************)
EXTENDS Integers, Sequences, FiniteSets, TLC

VARIABLES
    call,       \* the arguments of the latest call of a pure function
    ret,        \* what that call returned
    prev_call,  \* the arguments of the call before it
    prev_ret,   \* what the call before it returned
    pc,               \* where run_audit stands
    api_call_count,   \* the module's global call counter
    http_requests,    \* requests.get calls made so far (what a counting test double sees)
    user_repo_pages,  \* full pages /user/repos will serve (0: any answer to any page)
    page,             \* the listing loops' page
    org_idx,          \* index of the extra org being listed
    seen,             \* the dict seen, as its items in insertion order
    repo_idx,         \* index in repos of the repo being audited
    iter,             \* the locals of the per-repo loop body
    audit_results,    \* the list audit_results
    summary,          \* the dict summary
    report,           \* what run_audit returned
    agent,            \* the CleanupAgent object: dry_run, actions_taken, errors
    sent,             \* the requests the CleanupAgent made, in order
    budget_data,      \* BudgetManager.data
    budget_hour,      \* the hour of the clock the BudgetManager reads
    can_spend_ret,    \* what the latest can_spend returned
    workers,          \* the workers that call api_get at the same time
    run,              \* which call of run_audit in this process, and the counter it began with
    server            \* the dashboard server: _refresh_lock, the auto-refresh thread, the
                      \* threads handling POST /api/refresh

pure_vars == <<call, ret, prev_call, prev_ret>>

audit_vars == <<pc, api_call_count, http_requests, user_repo_pages, page, org_idx, seen,
                repo_idx, iter, audit_results, summary, report>>

cleanup_vars == <<agent, sent>>

budget_vars == <<budget_data, budget_hour, can_spend_ret>>

worker_vars == <<workers>>

process_vars == <<run>>

server_vars == <<server>>

not_pure_vars == <<audit_vars, cleanup_vars, budget_vars, worker_vars, process_vars, server_vars>>
not_audit_vars == <<pure_vars, cleanup_vars, budget_vars, worker_vars, process_vars, server_vars>>
not_cleanup_vars == <<pure_vars, audit_vars, budget_vars, worker_vars, process_vars, server_vars>>
not_budget_vars == <<pure_vars, audit_vars, cleanup_vars, worker_vars, process_vars, server_vars>>

vars == <<pure_vars, audit_vars, cleanup_vars, budget_vars, worker_vars, process_vars, server_vars>>

NoCall == [fn |-> "none"]

NoValue == [none |-> TRUE]

\* the module just imported: api_call_count = 0 (line 61), run_audit not yet called
InitAudit ==
    /\ pc = "idle"
    /\ api_call_count = 0
    /\ http_requests = 0
    /\ user_repo_pages = 0
    /\ page = 0
    /\ org_idx = 0
    /\ seen = << >>
    /\ repo_idx = 0
    /\ iter = NoValue
    /\ audit_results = << >>
    /\ summary = NoValue
    /\ report = NoValue

InitPure ==
    /\ call = NoCall
    /\ ret = NoCall
    /\ prev_call = NoCall
    /\ prev_ret = NoCall

\* no CleanupAgent constructed yet
InitCleanup ==
    /\ agent = NoValue
    /\ sent = << >>

\* BudgetManager(path) with no budget file: _load's fresh data (token_budget.py:72-78)
InitBudget ==
    /\ budget_data = [usage |-> [c \in {} |-> 0], alerts |-> << >>, total_cost |-> 0]
    /\ budget_hour = 0
    /\ can_spend_ret = NoValue

NumWorkers == 2

Workers == 1..NumWorkers

\* no worker has been started
InitWorkers == workers = [w \in Workers |-> [pc |-> "off", loaded |-> 0, calls |-> 0]]

\* the process has imported the module; its first run_audit begins with the counter
\* of line 61
InitProcess == run = [number |-> 1, count_at_start |-> 0]

NumHandlers == 2

\* the threads of the server that handle requests
Handlers == 1..NumHandlers

\* dashboard-server.py just loaded: the lock is free (line 793), the auto-refresh
\* thread is started (line 907) and enters its first attempt, no request yet
InitServer ==
    server = [lock     |-> "free",
              loop     |-> [pc |-> "acquire", phase |-> "startup", attempt |-> 1,
                            wait |-> 0, startup_cycles |-> 0, succeeded |-> FALSE],
              handlers |-> [h \in Handlers |-> [pc |-> "idle", status |-> 0]]]

Init ==
    InitPure /\ InitAudit /\ InitCleanup /\ InitBudget /\ InitWorkers /\ InitProcess
    /\ InitServer

(***************************************************************************)
(* Text helpers: str.lower(), the `in` substring test, sorted() on str.    *)
(***************************************************************************)
UpperChars == "ABCDEFGHIJKLMNOPQRSTUVWXYZ"
LowerChars == "abcdefghijklmnopqrstuvwxyz"

\* Code-point order of the characters the tables and the inputs use.
AsciiOrder == "\n -./0123456789=@ABCDEFGHIJKLMNOPQRSTUVWXYZ_abcdefghijklmnopqrstuvwxyz"

CharAt(s, i) == SubSeq(s, i, i)

\* the upper-case letters, each mapped to its lower-case letter
LowerTable ==
    [c \in {CharAt(UpperChars, i) : i \in 1..Len(UpperChars)} |->
        CharAt(LowerChars, CHOOSE i \in 1..Len(UpperChars) : CharAt(UpperChars, i) = c)]

LowerChar(c) == IF c \in DOMAIN LowerTable THEN LowerTable[c] ELSE c

RECURSIVE ToLower(_)
ToLower(s) ==
    IF Len(s) = 0 THEN ""
    ELSE LowerChar(CharAt(s, 1)) \o ToLower(SubSeq(s, 2, Len(s)))

\* Python's `pat in text`
Contains(text, pat) ==
    \E i \in 1..(Len(text) - Len(pat) + 1) : SubSeq(text, i, i + Len(pat) - 1) = pat

Ord(c) == CHOOSE i \in 1..Len(AsciiOrder) : CharAt(AsciiOrder, i) = c

\* a < b as Python compares str: by code point, a proper prefix first
StrLess(a, b) ==
    \E i \in 1..Len(b) :
        /\ \A j \in 1..(i - 1) : j <= Len(a) /\ CharAt(a, j) = CharAt(b, j)
        /\ \/ i = Len(a) + 1
           \/ i <= Len(a) /\ Ord(CharAt(a, i)) < Ord(CharAt(b, i))

\* sorted(keys) for a set of distinct strings
RECURSIVE SortedStrings(_)
SortedStrings(S) ==
    IF S = {} THEN << >>
    ELSE LET m == CHOOSE x \in S : \A y \in S \ {x} : StrLess(x, y)
         IN  <<m>> \o SortedStrings(S \ {m})

Range(seq) == {seq[i] : i \in 1..Len(seq)}

RECURSIVE SumSeq(_)
SumSeq(seq) == IF Len(seq) = 0 THEN 0 ELSE Head(seq) + SumSeq(Tail(seq))

(***************************************************************************)
(* Service tables (literal order is the dicts' iteration order).           *)
(***************************************************************************)
THIRD_PARTY_SERVICE_COSTS == <<
    [key |-> "supabase", cost |-> 25, label |-> "Supabase", category |-> "BaaS"],
    [key |-> "firebase", cost |-> 25, label |-> "Firebase", category |-> "BaaS"],
    [key |-> "planetscale", cost |-> 29, label |-> "PlanetScale", category |-> "Database"],
    [key |-> "neon", cost |-> 19, label |-> "Neon Postgres", category |-> "Database"],
    [key |-> "upstash", cost |-> 5, label |-> "Upstash Redis", category |-> "Cache"],
    [key |-> "redis", cost |-> 5, label |-> "Redis Cloud", category |-> "Cache"],
    [key |-> "vercel", cost |-> 20, label |-> "Vercel", category |-> "Hosting"],
    [key |-> "netlify", cost |-> 19, label |-> "Netlify", category |-> "Hosting"],
    [key |-> "cloudflare", cost |-> 5, label |-> "Cloudflare", category |-> "CDN"],
    [key |-> "mux", cost |-> 20, label |-> "Mux Video", category |-> "Media"],
    [key |-> "cloudinary", cost |-> 10, label |-> "Cloudinary", category |-> "Media"],
    [key |-> "imgix", cost |-> 10, label |-> "imgix", category |-> "Media"],
    [key |-> "stripe", cost |-> 0, label |-> "Stripe", category |-> "Payments"],
    [key |-> "auth0", cost |-> 0, label |-> "Auth0", category |-> "Auth"],
    [key |-> "clerk", cost |-> 25, label |-> "Clerk", category |-> "Auth"],
    [key |-> "openai", cost |-> 20, label |-> "OpenAI API", category |-> "AI"],
    [key |-> "anthropic", cost |-> 20, label |-> "Anthropic API", category |-> "AI"],
    [key |-> "gemini", cost |-> 0, label |-> "Gemini API", category |-> "AI"],
    [key |-> "replicate", cost |-> 10, label |-> "Replicate", category |-> "AI"],
    [key |-> "huggingface", cost |-> 10, label |-> "Hugging Face", category |-> "AI"],
    [key |-> "sentry", cost |-> 0, label |-> "Sentry", category |-> "Observability"],
    [key |-> "datadog", cost |-> 15, label |-> "Datadog", category |-> "Observability"],
    [key |-> "circleci", cost |-> 15, label |-> "CircleCI", category |-> "CI/CD"],
    [key |-> "sendgrid", cost |-> 0, label |-> "SendGrid", category |-> "Email"],
    [key |-> "resend", cost |-> 0, label |-> "Resend", category |-> "Email"],
    [key |-> "twilio", cost |-> 10, label |-> "Twilio", category |-> "Communications"],
    [key |-> "suno", cost |-> 10, label |-> "Suno API", category |-> "Audio"]
>>

SERVICE_DETECTION_PATTERNS == <<
    [key |-> "supabase", patterns |-> <<"@supabase/", "supabase-py", "supabase-js", "supabase.co">>],
    [key |-> "firebase", patterns |-> <<"firebase-admin", "@firebase/", "firebaseConfig", "google-cloud-firestore">>],
    [key |-> "planetscale", patterns |-> <<"@planetscale/", "planetscale">>],
    [key |-> "neon", patterns |-> <<"@neondatabase/", "neon.tech">>],
    [key |-> "upstash", patterns |-> <<"@upstash/", "upstash-redis">>],
    [key |-> "redis", patterns |-> <<"redis", "ioredis", "aioredis", "redis-py">>],
    [key |-> "vercel", patterns |-> <<"@vercel/", "vercel.json", "VERCEL_", "vercel.app">>],
    [key |-> "netlify", patterns |-> <<"netlify.toml", "netlify-cli", "NETLIFY_">>],
    [key |-> "cloudflare", patterns |-> <<"cloudflare", "wrangler", "CLOUDFLARE_">>],
    [key |-> "mux", patterns |-> <<"@mux/", "mux-python", "mux.com", "MUX_TOKEN">>],
    [key |-> "cloudinary", patterns |-> <<"cloudinary", "CLOUDINARY_">>],
    [key |-> "imgix", patterns |-> <<"imgix">>],
    [key |-> "stripe", patterns |-> <<"stripe", "@stripe/", "STRIPE_">>],
    [key |-> "auth0", patterns |-> <<"@auth0/", "auth0-python", "AUTH0_">>],
    [key |-> "clerk", patterns |-> <<"@clerk/", "CLERK_">>],
    [key |-> "openai", patterns |-> <<"openai", "OPENAI_API_KEY">>],
    [key |-> "anthropic", patterns |-> <<"anthropic", "ANTHROPIC_API_KEY">>],
    [key |-> "gemini", patterns |-> <<"gemini", "GEMINI_API_KEY", "google-generativeai", "@google/generative-ai">>],
    [key |-> "replicate", patterns |-> <<"replicate", "REPLICATE_">>],
    [key |-> "huggingface", patterns |-> <<"huggingface", "transformers", "huggingface_hub">>],
    [key |-> "sentry", patterns |-> <<"@sentry/", "sentry-sdk", "SENTRY_DSN">>],
    [key |-> "datadog", patterns |-> <<"datadog", "ddtrace">>],
    [key |-> "circleci", patterns |-> <<".circleci">>],
    [key |-> "sendgrid", patterns |-> <<"sendgrid", "@sendgrid/", "SENDGRID_">>],
    [key |-> "resend", patterns |-> <<"resend">>],
    [key |-> "twilio", patterns |-> <<"twilio", "TWILIO_">>],
    [key |-> "suno", patterns |-> <<"suno">>]
>>

ServiceKeys == {SERVICE_DETECTION_PATTERNS[i].key : i \in 1..Len(SERVICE_DETECTION_PATTERNS)}

\* SERVICE_DETECTION_PATTERNS.items() in the literal's order
LiteralOrder == [i \in 1..Len(SERVICE_DETECTION_PATTERNS) |-> SERVICE_DETECTION_PATTERNS[i].key]

PatternsOf(k) ==
    (CHOOSE e \in Range(SERVICE_DETECTION_PATTERNS) : e.key = k).patterns

\* THIRD_PARTY_SERVICE_COSTS.get(svc_key, {}) with the .get defaults of the fields
CostInfo(k) ==
    IF \E e \in Range(THIRD_PARTY_SERVICE_COSTS) : e.key = k
    THEN CHOOSE e \in Range(THIRD_PARTY_SERVICE_COSTS) : e.key = k
    ELSE [key |-> k, cost |-> 0, label |-> k, category |-> "Other"]

(***************************************************************************)
(* detect_third_party_services: the corpus and its scan.                   *)
(* A fetched file is <<>> (None) or <<text>>.                              *)
(***************************************************************************)
None == << >>
Some(x) == <<x>>

\* a corpus joined without the "\n" between files
RECURSIVE BuildCorpus_NoSeparator(_, _)
BuildCorpus_NoSeparator(corpus, contents) ==
    IF Len(contents) = 0 THEN corpus
    ELSE LET content == Head(contents)
         IN  IF content # None /\ content[1] # ""
             THEN BuildCorpus_NoSeparator(corpus \o content[1], Tail(contents))
             ELSE BuildCorpus_NoSeparator(corpus, Tail(contents))

\* corpus = ""; for each file: if content: corpus += "\n" + content
RECURSIVE BuildCorpus(_, _)
BuildCorpus(corpus, contents) ==
    IF Len(contents) = 0 THEN corpus
    ELSE LET content == Head(contents)
         IN  IF content # None /\ content[1] # ""
             THEN BuildCorpus(corpus \o "\n" \o content[1], Tail(contents))
             ELSE BuildCorpus(corpus, Tail(contents))

\* the pattern test without pat.lower()
RECURSIVE AnyPatternIn_CaseSensitive(_, _)
AnyPatternIn_CaseSensitive(patterns, corpus_lower) ==
    IF Len(patterns) = 0 THEN FALSE
    ELSE IF Contains(corpus_lower, Head(patterns)) THEN TRUE
    ELSE AnyPatternIn_CaseSensitive(Tail(patterns), corpus_lower)

\* for pat in patterns: if pat.lower() in corpus_lower: ...; break
RECURSIVE AnyPatternIn(_, _)
AnyPatternIn(patterns, corpus_lower) ==
    IF Len(patterns) = 0 THEN FALSE
    ELSE IF Contains(corpus_lower, ToLower(Head(patterns))) THEN TRUE
    ELSE AnyPatternIn(Tail(patterns), corpus_lower)

\* for svc_key, patterns in SERVICE_DETECTION_PATTERNS.items(): detected[svc_key] = True
\* `detected` is the dict's keys in insertion order; `order` is the iteration order.
RECURSIVE Detect(_, _, _)
Detect(detected, order, corpus_lower) ==
    IF Len(order) = 0 THEN detected
    ELSE LET svc_key == Head(order)
         IN  IF AnyPatternIn(PatternsOf(svc_key), corpus_lower) /\ svc_key \notin Range(detected)
             THEN Detect(Append(detected, svc_key), Tail(order), corpus_lower)
             ELSE Detect(detected, Tail(order), corpus_lower)

\* for svc_key in sorted(detected.keys()): details.append({...})
ServiceDetails(keys) ==
    [i \in 1..Len(keys) |->
        LET info == CostInfo(keys[i])
        IN  [service |-> keys[i], label |-> info.label, cost |-> info.cost,
             category |-> info.category]]

\* total_cost += cost over the details
TotalCost(details) == SumSeq([i \in 1..Len(details) |-> details[i].cost])

EmptyServices == [services |-> << >>, service_details |-> << >>, third_party_cost |-> 0]

\* lines 392-422: from the corpus to the returned dict
ScanCorpus(corpus, order) ==
    IF corpus = "" THEN EmptyServices
    ELSE LET detected == Detect(<< >>, order, ToLower(corpus))
             details  == ServiceDetails(SortedStrings(Range(detected)))
         IN  [services         |-> SortedStrings(Range(detected)),
              service_details  |-> details,
              third_party_cost |-> TotalCost(details)]

\* lines 384-422 on the fetched contents of the scanned files, in scan order
detect_third_party_services(contents, order) ==
    ScanCorpus(BuildCorpus("", contents), order)

(***************************************************************************)
(* The detector on its own: any fetched contents, any iteration order.     *)
(***************************************************************************)
MaxFiles == 2

FileTexts == {"", "redis", "Upstash-Redis", "@supabase/x", "STRIPE_KEY", "re", "dis", "CLERK_ID"}

Fetched == {None} \cup {Some(t) : t \in FileTexts}

SeqsUpTo(S, n) == UNION {[1..k -> S] : k \in 0..n}

Reverse(seq) == [i \in 1..Len(seq) |-> seq[Len(seq) + 1 - i]]

TableOrders == {LiteralOrder, Reverse(LiteralOrder)}

\* the same files, fetched in any order
Reordered(contents) ==
    {[i \in 1..Len(contents) |-> contents[p[i]]] : p \in Permutations(1..Len(contents))}

DetectCall(contents, order) ==
    /\ call' = [fn |-> "detect_third_party_services", contents |-> contents, order |-> order]
    /\ ret' = detect_third_party_services(contents, order)
    /\ prev_call' = call
    /\ prev_ret' = ret
    /\ UNCHANGED not_pure_vars

DetectFirst ==
    /\ call = NoCall
    /\ \E contents \in SeqsUpTo(Fetched, MaxFiles), order \in TableOrders :
           DetectCall(contents, order)

\* the second run, on the files of the first
DetectAgain ==
    /\ call.fn = "detect_third_party_services"
    /\ prev_call = NoCall
    /\ \E contents \in Reordered(call.contents), order \in TableOrders :
           DetectCall(contents, order)

NextDetect == DetectFirst \/ DetectAgain

SpecDetect == Init /\ [][NextDetect]_vars

(***************************************************************************)
(* Claims about the detector.                                              *)
(***************************************************************************)
IsDetectCall(c) == c.fn = "detect_third_party_services"

\* two characters that are the same letter, whatever their case
SameLetter(c, d) ==
    \/ c = d
    \/ c \in DOMAIN LowerTable /\ LowerTable[c] = d
    \/ d \in DOMAIN LowerTable /\ LowerTable[d] = c

OccursIgnoringCase(pat, text) ==
    \E i \in 1..(Len(text) - Len(pat) + 1) :
        \A j \in 1..Len(pat) : SameLetter(CharAt(text, i + j - 1), CharAt(pat, j))

\* the service keys with at least one pattern occurring in the corpus
KeysOccurringIn(corpus) ==
    {k \in ServiceKeys : \E p \in Range(PatternsOf(k)) : OccursIgnoringCase(p, corpus)}

RECURSIVE SumOfCosts(_)
SumOfCosts(keys) ==
    IF keys = {} THEN 0
    ELSE LET k == CHOOSE x \in keys : TRUE
         IN  CostInfo(k).cost + SumOfCosts(keys \ {k})

StrictlyAscending(seq) ==
    \A i \in 1..Len(seq) : \A j \in (i + 1)..Len(seq) : StrLess(seq[i], seq[j])

\* C9: for a non-empty corpus, services is the sorted duplicate-free list of exactly
\* the keys with a pattern occurring case-insensitively in the corpus, service_details
\* lists each of them with its table cost, and third_party_cost is the sum of those
\* costs (a zero-cost service is listed and adds nothing).
C9_DetectExact ==
    (IsDetectCall(call) /\ BuildCorpus("", call.contents) # "") =>
        LET corpus == BuildCorpus("", call.contents)
            keys   == KeysOccurringIn(corpus)
        IN  /\ Range(ret.services) = keys
            /\ StrictlyAscending(ret.services)
            /\ Len(ret.service_details) = Len(ret.services)
            /\ \A i \in 1..Len(ret.services) :
                   /\ ret.service_details[i].service = ret.services[i]
                   /\ ret.service_details[i].cost = CostInfo(ret.services[i]).cost
            /\ ret.third_party_cost = SumOfCosts(keys)

\* C9 witness: stripe (cost 0) and redis (cost 5) both detected, the cost is 5
C9_Witness ==
    /\ IsDetectCall(call)
    /\ ret.services = <<"redis", "stripe">>
    /\ ret.third_party_cost = 5

\* the same multiset of fetched files
SameFiles(a, b) ==
    /\ Len(a) = Len(b)
    /\ \E p \in Permutations(1..Len(a)) : \A i \in 1..Len(a) : a[i] = b[p[i]]

\* C10: two runs of the detector on the same fetched files, concatenated in any
\* order and with the service table iterated in any order, give the same services
\* and the same third_party_cost.
C10_DetectOrderIndependent ==
    (IsDetectCall(call) /\ IsDetectCall(prev_call) /\ SameFiles(call.contents, prev_call.contents)) =>
        /\ ret.services = prev_ret.services
        /\ ret.third_party_cost = prev_ret.third_party_cost

\* C10 witness: the files in another order, the table in another order, two services found
C10_Witness ==
    /\ IsDetectCall(call) /\ IsDetectCall(prev_call)
    /\ call.contents # prev_call.contents
    /\ SameFiles(call.contents, prev_call.contents)
    /\ call.order # prev_call.order
    /\ Len(ret.services) = 2

(***************************************************************************)
(* audit_staleness.  A timestamp string is [parses, tick]: whether         *)
(* datetime.fromisoformat accepts it, and the instant it names.  Tick 0 is *)
(* 2000-01-01T00:00:00Z.                                                   *)
(***************************************************************************)
TicksPerDay == 2

STALE_DAYS == 180
DEAD_DAYS == 365 * 2
DORMANT_DAYS == 90

\* the status chain with the labels of the two middle branches exchanged
StatusOf_SwappedLabels(days_since) ==
    IF days_since > DEAD_DAYS THEN "DEAD"
    ELSE IF days_since > STALE_DAYS THEN "DORMANT"
    ELSE IF days_since > DORMANT_DAYS THEN "STALE"
    ELSE "ACTIVE"

\* the status chain with >= for >
StatusOf_Inclusive(days_since) ==
    IF days_since >= DEAD_DAYS THEN "DEAD"
    ELSE IF days_since >= STALE_DAYS THEN "STALE"
    ELSE IF days_since >= DORMANT_DAYS THEN "DORMANT"
    ELSE "ACTIVE"

\* lines 219-230: if / elif / elif / else on days_since
StatusOf(days_since) ==
    IF days_since > DEAD_DAYS THEN "DEAD"
    ELSE IF days_since > STALE_DAYS THEN "STALE"
    ELSE IF days_since > DORMANT_DAYS THEN "DORMANT"
    ELSE "ACTIVE"

RecommendationOf(status) ==
    CASE status = "DEAD" -> "DELETE or ARCHIVE"
      [] status = "STALE" -> "ARCHIVE"
      [] status = "DORMANT" -> "REVIEW"
      [] OTHER -> "KEEP"

\* (now - last_push).days: timedelta.days is the floor of the difference in days
DaysBetween(now, last_push) == (now - last_push) \div TicksPerDay

\* audit_staleness(pushed_at) read at clock value now; a timestamp that does not
\* parse raises ValueError
audit_staleness(pushed_at, now) ==
    IF ~pushed_at.parses THEN [raised |-> "ValueError"]
    ELSE LET days_since == DaysBetween(now, pushed_at.tick)
         IN  [last_push       |-> pushed_at,
              days_since_push |-> days_since,
              status          |-> StatusOf(days_since),
              recommendation  |-> RecommendationOf(StatusOf(days_since))]

Raised(r) == "raised" \in DOMAIN r

(***************************************************************************)
(* The staleness evaluator on its own: timestamps around every threshold,  *)
(* in the past and in the future of the clock.                             *)
(***************************************************************************)
NowDay == 9000
Window == 1

NowTick == NowDay * TicksPerDay

\* ages, in ticks, within Window days of day 0, 30, 90, STALE_DAYS and DEAD_DAYS
AgeSamples ==
    UNION {((d - Window) * TicksPerDay)..((d + 1 + Window) * TicksPerDay) :
              d \in {0, 30, DORMANT_DAYS, STALE_DAYS, DEAD_DAYS}}

Timestamp(tick) == [parses |-> TRUE, tick |-> tick]

PushedAtSamples == {Timestamp(NowTick - a) : a \in AgeSamples}

StalenessCall ==
    \E pushed_at \in PushedAtSamples, now \in {NowTick, NowTick + 1} :
        /\ call' = [fn |-> "audit_staleness", pushed_at |-> pushed_at, now |-> now]
        /\ ret' = audit_staleness(pushed_at, now)
        /\ prev_call' = call
        /\ prev_ret' = ret
        /\ UNCHANGED not_pure_vars

NextStaleness == StalenessCall

SpecStaleness == Init /\ [][NextStaleness]_vars

(***************************************************************************)
(* Claims about the staleness evaluator.                                   *)
(***************************************************************************)
IsStalenessCall(c) == c.fn = "audit_staleness"

\* whole days from the last push to the clock reading of the call
DaysSincePush(c) == (c.now - c.pushed_at.tick) \div TicksPerDay

\* C4: audit_staleness maps the days since the last push d to DEAD when d > 730,
\* else STALE when d > 180, else DORMANT when d > 90, else ACTIVE.
C4_StalenessThresholds ==
    IsStalenessCall(call) =>
        LET d == DaysSincePush(call)
        IN  /\ ret.days_since_push = d
            /\ ret.status = IF d > 730 THEN "DEAD"
                            ELSE IF d > 180 THEN "STALE"
                            ELSE IF d > 90 THEN "DORMANT"
                            ELSE "ACTIVE"

\* C4 witness: day 730 evaluated STALE right after day 180 evaluated DORMANT
C4_Witness ==
    /\ IsStalenessCall(call)
    /\ DaysSincePush(call) = 730 /\ ret.status = "STALE"
    /\ IsStalenessCall(prev_call)
    /\ DaysSincePush(prev_call) = 180 /\ prev_ret.status = "DORMANT"

StatusRank(status) ==
    CASE status = "ACTIVE" -> 0
      [] status = "DORMANT" -> 1
      [] status = "STALE" -> 2
      [] status = "DEAD" -> 3

\* C5: for two last-push timestamps t1 < t2, both not later than now and evaluated
\* against the same now, the status of t1 is never fresher than the status of t2.
C5_StalenessMonotone ==
    (/\ IsStalenessCall(call) /\ IsStalenessCall(prev_call)
     /\ call.now = prev_call.now
     /\ call.pushed_at.tick <= call.now /\ prev_call.pushed_at.tick <= call.now) =>
        /\ call.pushed_at.tick < prev_call.pushed_at.tick =>
               StatusRank(ret.status) >= StatusRank(prev_ret.status)
        /\ prev_call.pushed_at.tick < call.pushed_at.tick =>
               StatusRank(prev_ret.status) >= StatusRank(ret.status)

\* C5 witness: an older and a newer push with different statuses, same clock
C5_Witness ==
    /\ IsStalenessCall(call) /\ IsStalenessCall(prev_call)
    /\ call.now = prev_call.now
    /\ prev_call.pushed_at.tick < call.pushed_at.tick
    /\ call.pushed_at.tick <= call.now
    /\ prev_ret.status = "STALE" /\ ret.status = "DORMANT"

(***************************************************************************)
(* classify_repo.                                                          *)
(***************************************************************************)
CORE_REPOS ==
    {"ArchitectAIPro", "ArchitectAIPro_GHActions", "clipstream",
     "ProposalBuddyAI", "polymath-hub", "BlueFalconInkLanding",
     "videogamedev", "Afterword", "BlueFalconInk"}

CLOUD_RUN_IDLE_BASE == 0
CLOUD_RUN_ACTIVE_BASE == 3
GH_ACTIONS_CI_BASE == 0
ACTIVE_PUSH_DAYS == 30

\* dict.get(key, default)
Get(d, key, default) == IF key \in DOMAIN d THEN d[key] ELSE default

\* {}
EmptyDict == [x \in {} |-> 0]

\* services=None (the default), which `services or {}` replaces by {}: it holds
\* neither key classify_repo reads
NoServices == [none |-> TRUE]

BurnTiers == {"CORE", "ACTIVE", "DORMANT"}

\* the priority chain with the fork rules tried before the core allowlist
TierAction_ForkBeforeCore(repo, staleness) ==
    LET name        == repo.name
        is_fork     == Get(repo, "fork", Get(repo, "isFork", FALSE))
        is_archived == Get(repo, "archived", Get(repo, "isArchived", FALSE))
    IN  IF is_archived THEN [tier |-> "ARCHIVED", action |-> "NONE"]
        ELSE IF is_fork /\ staleness.status \in {"DEAD", "STALE"}
            THEN [tier |-> "LEGACY_FORK", action |-> "DELETE"]
        ELSE IF is_fork THEN [tier |-> "FORK", action |-> "REVIEW"]
        ELSE IF name \in CORE_REPOS THEN [tier |-> "CORE", action |-> "MAINTAIN"]
        ELSE IF staleness.status = "DEAD" THEN [tier |-> "DEAD", action |-> "ARCHIVE_OR_DELETE"]
        ELSE IF staleness.status = "STALE" THEN [tier |-> "STALE", action |-> "ARCHIVE"]
        ELSE IF staleness.status = "DORMANT" THEN [tier |-> "DORMANT", action |-> "REVIEW"]
        ELSE [tier |-> "ACTIVE", action |-> "MAINTAIN"]

\* lines 434-464: the priority classification
TierAction(repo, staleness) ==
    LET name        == repo.name
        is_fork     == Get(repo, "fork", Get(repo, "isFork", FALSE))
        is_archived == Get(repo, "archived", Get(repo, "isArchived", FALSE))
    IN  IF is_archived THEN [tier |-> "ARCHIVED", action |-> "NONE"]
        ELSE IF name \in CORE_REPOS THEN [tier |-> "CORE", action |-> "MAINTAIN"]
        ELSE IF is_fork /\ staleness.status \in {"DEAD", "STALE"}
            THEN [tier |-> "LEGACY_FORK", action |-> "DELETE"]
        ELSE IF is_fork THEN [tier |-> "FORK", action |-> "REVIEW"]
        ELSE IF staleness.status = "DEAD" THEN [tier |-> "DEAD", action |-> "ARCHIVE_OR_DELETE"]
        ELSE IF staleness.status = "STALE" THEN [tier |-> "STALE", action |-> "ARCHIVE"]
        ELSE IF staleness.status = "DORMANT" THEN [tier |-> "DORMANT", action |-> "REVIEW"]
        ELSE [tier |-> "ACTIVE", action |-> "MAINTAIN"]

\* for svc in svc_details: burn_breakdown[svc["label"]] = svc["cost"], without the
\* cost > 0 test
RECURSIVE AddServiceCosts_NoCostFilter(_, _)
AddServiceCosts_NoCostFilter(burn_breakdown, svc_details) ==
    IF Len(svc_details) = 0 THEN burn_breakdown
    ELSE LET svc == Head(svc_details)
         IN  AddServiceCosts_NoCostFilter((svc.label :> svc.cost) @@ burn_breakdown,
                                          Tail(svc_details))

\* lines 486-489: for svc in svc_details: if svc["cost"] > 0: burn_breakdown[label] = cost
RECURSIVE AddServiceCosts(_, _)
AddServiceCosts(burn_breakdown, svc_details) ==
    IF Len(svc_details) = 0 THEN burn_breakdown
    ELSE LET svc == Head(svc_details)
         IN  IF svc.cost > 0
             THEN AddServiceCosts((svc.label :> svc.cost) @@ burn_breakdown, Tail(svc_details))
             ELSE AddServiceCosts(burn_breakdown, Tail(svc_details))

\* the Cloud Run entry at the active baseline whatever the last push
BaseBreakdown_AlwaysActive(staleness) ==
    ("CI/CD" :> GH_ACTIONS_CI_BASE) @@ ("Cloud Run" :> CLOUD_RUN_ACTIVE_BASE)

\* lines 475-481: the Cloud Run and CI/CD entries
BaseBreakdown(staleness) ==
    ("CI/CD" :> GH_ACTIONS_CI_BASE) @@
    ("Cloud Run" :> IF staleness.days_since_push < ACTIVE_PUSH_DAYS
                    THEN CLOUD_RUN_ACTIVE_BASE ELSE CLOUD_RUN_IDLE_BASE)

\* the burn estimation without the test on the tier
BurnBreakdown_NoTierGate(tier, staleness, services) ==
    AddServiceCosts(BaseBreakdown(staleness), Get(services, "service_details", << >>))

\* lines 469-492: burn_breakdown
BurnBreakdown(tier, staleness, services) ==
    IF tier \in BurnTiers
    THEN AddServiceCosts(BaseBreakdown(staleness), Get(services, "service_details", << >>))
    ELSE EmptyDict

\* sum(burn_breakdown.values())
RECURSIVE SumValues(_)
SumValues(d) ==
    IF DOMAIN d = {} THEN 0
    ELSE LET k == CHOOSE x \in DOMAIN d : TRUE
         IN  d[k] + SumValues([x \in DOMAIN d \ {k} |-> d[x]])

\* round(disk_kb / 1024, 1), in tenths of a MB: the quotient is exact in binary, so
\* round() rounds it to the nearest tenth and a tie to the even tenth
DiskMb(disk_kb) ==
    LET q == (disk_kb * 10) \div 1024
        r == (disk_kb * 10) % 1024
    IN  IF r < 512 THEN q
        ELSE IF r > 512 THEN q + 1
        ELSE IF q % 2 = 0 THEN q ELSE q + 1

\* a classifier that takes any repo with a detected service for an active one
classify_repo_ActiveWhenServices(repo, staleness, services) ==
    LET found          == Len(Get(services, "services", << >>)) > 0
        ta             == IF found THEN [tier |-> "ACTIVE", action |-> "MAINTAIN"]
                          ELSE TierAction(repo, staleness)
        burn_breakdown == BurnBreakdown(ta.tier, staleness, services)
    IN  [tier                  |-> ta.tier,
         action                |-> ta.action,
         monthly_burn_estimate |-> SumValues(burn_breakdown),
         burn_breakdown        |-> burn_breakdown,
         disk_mb               |-> DiskMb(Get(repo, "size", Get(repo, "diskUsage", 0)))]

classify_repo(repo, staleness, services) ==
    LET ta             == TierAction(repo, staleness)
        burn_breakdown == BurnBreakdown(ta.tier, staleness, services)
    IN  [tier                  |-> ta.tier,
         action                |-> ta.action,
         monthly_burn_estimate |-> SumValues(burn_breakdown),
         burn_breakdown        |-> burn_breakdown,
         disk_mb               |-> DiskMb(Get(repo, "size", Get(repo, "diskUsage", 0)))]

(***************************************************************************)
(* The classifier on its own: any repo record, any staleness result, any   *)
(* services data.                                                          *)
(***************************************************************************)
RepoNames == {"ArchitectAIPro", "old-prototype"}

DiskSizes == {0, 256, 500}

\* records as the REST listing gives them, and with the GraphQL key names
RepoSamples ==
    {[name |-> n, fork |-> f, archived |-> a, size |-> z] :
        n \in RepoNames, f \in BOOLEAN, a \in BOOLEAN, z \in DiskSizes}
    \cup
    {[name |-> n, isFork |-> f, isArchived |-> a, diskUsage |-> z] :
        n \in RepoNames, f \in BOOLEAN, a \in BOOLEAN, z \in DiskSizes}

StalenessSamples == {audit_staleness(p, NowTick) : p \in PushedAtSamples}

\* services data of any kind: absent, empty, a detector result, hand-made entries
\* that reuse a label, carry a zero or a negative cost
ServicesSamples ==
    {NoServices, EmptyServices,
     detect_third_party_services(<<Some("redis"), Some("STRIPE_KEY")>>, LiteralOrder),
     detect_third_party_services(<<Some("@supabase/x"), Some("Upstash-Redis")>>, LiteralOrder),
     [third_party_cost |-> 9,
      service_details |-> <<[label |-> "Cloud Run", cost |-> 7],
                            [label |-> "Widget", cost |-> 0],
                            [label |-> "Gadget", cost |-> 0 - 4],
                            [label |-> "Cloud Run", cost |-> 2]>>]}

ClassifyCall ==
    /\ call = NoCall
    /\ \E repo \in RepoSamples, staleness \in StalenessSamples, services \in ServicesSamples :
           /\ call' = [fn |-> "classify_repo", repo |-> repo, staleness |-> staleness,
                       services |-> services]
           /\ ret' = classify_repo(repo, staleness, services)
           /\ UNCHANGED <<prev_call, prev_ret>>
           /\ UNCHANGED not_pure_vars

NextClassify == ClassifyCall

SpecClassify == Init /\ [][NextClassify]_vars

(***************************************************************************)
(* Claims about the classifier.                                            *)
(***************************************************************************)
IsClassifyCall(c) == c.fn = "classify_repo"

\* the flags of a record, under either key name
IsArchived(repo) == IF "archived" \in DOMAIN repo THEN repo.archived ELSE repo.isArchived
IsFork(repo) == IF "fork" \in DOMAIN repo THEN repo.fork ELSE repo.isFork

\* the eight rules in priority order: whether rule i applies, and what it gives
RuleApplies(i, repo, status) ==
    CASE i = 1 -> IsArchived(repo)
      [] i = 2 -> repo.name \in CORE_REPOS
      [] i = 3 -> IsFork(repo) /\ status \in {"DEAD", "STALE"}
      [] i = 4 -> IsFork(repo)
      [] i = 5 -> status = "DEAD"
      [] i = 6 -> status = "STALE"
      [] i = 7 -> status = "DORMANT"
      [] i = 8 -> TRUE

RuleGives ==
    <<[tier |-> "ARCHIVED", action |-> "NONE"],
      [tier |-> "CORE", action |-> "MAINTAIN"],
      [tier |-> "LEGACY_FORK", action |-> "DELETE"],
      [tier |-> "FORK", action |-> "REVIEW"],
      [tier |-> "DEAD", action |-> "ARCHIVE_OR_DELETE"],
      [tier |-> "STALE", action |-> "ARCHIVE"],
      [tier |-> "DORMANT", action |-> "REVIEW"],
      [tier |-> "ACTIVE", action |-> "MAINTAIN"]>>

FirstRule(repo, status) ==
    CHOOSE i \in 1..8 :
        RuleApplies(i, repo, status) /\ \A j \in 1..(i - 1) : ~RuleApplies(j, repo, status)

\* C1: classify_repo returns the tier and action of the first rule that applies,
\* in the order archived, core allowlist, stale or dead fork, fork, DEAD, STALE,
\* DORMANT, otherwise ACTIVE.
C1_TierIsFirstRule ==
    IsClassifyCall(call) =>
        LET rule == RuleGives[FirstRule(call.repo, call.staleness.status)]
        IN  ret.tier = rule.tier /\ ret.action = rule.action

\* C1 witness: a stale fork on the core allowlist is CORE, not LEGACY_FORK
C1_Witness ==
    /\ IsClassifyCall(call)
    /\ call.repo.name \in CORE_REPOS /\ IsFork(call.repo) /\ ~IsArchived(call.repo)
    /\ call.staleness.status = "STALE"
    /\ ret.tier = "CORE" /\ ret.action = "MAINTAIN"

\* C2: a classification whose tier is not CORE, ACTIVE or DORMANT has
\* monthly_burn_estimate 0 and an empty burn_breakdown, whatever the services data.
C2_NoBurnOutsideBurnTiers ==
    (IsClassifyCall(call) /\ ret.tier \notin {"CORE", "ACTIVE", "DORMANT"}) =>
        ret.monthly_burn_estimate = 0 /\ DOMAIN ret.burn_breakdown = {}

\* C2 witness: a DEAD repo classified with services data that carries costs
C2_Witness ==
    /\ IsClassifyCall(call)
    /\ ret.tier = "DEAD"
    /\ Get(call.services, "third_party_cost", 0) > 0
    /\ ret.monthly_burn_estimate = 0

\* the values of a breakdown, added up one label after the other
RECURSIVE TotalOver(_, _)
TotalOver(labels, d) ==
    IF labels = {} THEN 0
    ELSE LET l == CHOOSE x \in labels : TRUE
         IN  d[l] + TotalOver(labels \ {l}, d)

\* C3: monthly_burn_estimate equals the sum of the values of burn_breakdown and
\* is >= 0.
C3_BurnIsSumOfBreakdown ==
    IsClassifyCall(call) =>
        /\ ret.monthly_burn_estimate = TotalOver(DOMAIN ret.burn_breakdown, ret.burn_breakdown)
        /\ ret.monthly_burn_estimate >= 0

\* C3 witness: a recent repo with services data holding a negative and a reused label
C3_Witness ==
    /\ IsClassifyCall(call)
    /\ ret.tier = "ACTIVE"
    /\ \E i \in 1..Len(Get(call.services, "service_details", << >>)) :
           call.services.service_details[i].cost < 0
    /\ ret.monthly_burn_estimate = 2

(***************************************************************************)
(* The HTTP layer: api_get and api_get_text.  A response is what            *)
(* requests.get does: it raises (timeout, connection error) or answers with *)
(* a status code and a body.                                                *)
(***************************************************************************)
MAX_API_CALLS == 300

Ok(body) == [raises |-> FALSE, status |-> 200, body |-> body]
NotFound == [raises |-> FALSE, status |-> 404, body |-> ""]
ServerError == [raises |-> FALSE, status |-> 500, body |-> ""]
TimedOut == [raises |-> TRUE, status |-> 0, body |-> ""]

\* what may happen to a request whose resource would answer `answer`
Outcomes(answer) == IF answer.status = 200 THEN {answer, ServerError, TimedOut} ELSE {answer}

\* api_get refusing from the call that reaches MAX_API_CALLS on
api_get_RefusesAtCeiling(count, resp) ==
    IF count + 1 >= MAX_API_CALLS
    THEN [count |-> count + 1, issued |-> 0, result |-> None]
    ELSE [count  |-> count + 1,
          issued |-> 1,
          result |-> IF resp.raises THEN None
                     ELSE IF resp.status = 200 THEN Some(resp.body)
                     ELSE None]

\* api_get without the test against MAX_API_CALLS
api_get_Unbudgeted(count, resp) ==
    [count  |-> count + 1,
     issued |-> 1,
     result |-> IF resp.raises THEN None
                ELSE IF resp.status = 200 THEN Some(resp.body)
                ELSE None]

\* api_get(url, token, params) called with the counter at `count`: the counter after
\* it, the requests.get calls it made (0 or 1), and what it returned
api_get(count, resp) ==
    IF count + 1 > MAX_API_CALLS
    THEN [count |-> count + 1, issued |-> 0, result |-> None]
    ELSE [count  |-> count + 1,
          issued |-> 1,
          result |-> IF resp.raises THEN None
                     ELSE IF resp.status = 200 THEN Some(resp.body)
                     ELSE IF resp.status = 404 THEN None
                     ELSE None]

\* api_get_text without the test against MAX_API_CALLS
api_get_text_Unbudgeted(count, resp) ==
    [count  |-> count + 1,
     issued |-> 1,
     result |-> IF resp.raises THEN None
                ELSE IF resp.status = 200 THEN Some(resp.body)
                ELSE None]

\* api_get_text(url, token)
api_get_text(count, resp) ==
    IF count + 1 > MAX_API_CALLS
    THEN [count |-> count + 1, issued |-> 0, result |-> None]
    ELSE [count  |-> count + 1,
          issued |-> 1,
          result |-> IF resp.raises THEN None
                     ELSE IF resp.status = 200 THEN Some(resp.body)
                     ELSE None]

\* consecutive api_get calls, one per response: the counter, the requests made and
\* the results in call order
RECURSIVE GetEach(_, _)
GetEach(count, resps) ==
    IF Len(resps) = 0 THEN [count |-> count, issued |-> 0, results |-> << >>]
    ELSE LET g    == api_get(count, Head(resps))
             rest == GetEach(g.count, Tail(resps))
         IN  [count   |-> rest.count,
              issued  |-> g.issued + rest.issued,
              results |-> <<g.result>> \o rest.results]

\* consecutive api_get_text calls
RECURSIVE GetTextEach(_, _)
GetTextEach(count, resps) ==
    IF Len(resps) = 0 THEN [count |-> count, issued |-> 0, results |-> << >>]
    ELSE LET g    == api_get_text(count, Head(resps))
             rest == GetTextEach(g.count, Tail(resps))
         IN  [count   |-> rest.count,
              issued  |-> g.issued + rest.issued,
              results |-> <<g.result>> \o rest.results]

\* every way to pick one element from each set of a sequence of sets
RECURSIVE Product(_)
Product(sets) ==
    IF Len(sets) = 0 THEN {<< >>}
    ELSE {<<x>> \o rest : x \in Head(sets), rest \in Product(Tail(sets))}

(***************************************************************************)
(* run_audit, enumeration (lines 509-571).                                 *)
(*                                                                         *)
(* A listing page is [recs, len]: a JSON list of len entries, recs         *)
(* followed, in a full page, by copies of its last record.                 *)
(***************************************************************************)
PER_PAGE == 100

Owner == "koreric75"
ExtraOrgs == <<"bluefalconink">>

MaxBatch == 2
MaxFullPages == 1

Repo(login, name, fork, archived, age_days) ==
    [name |-> name, owner |-> [login |-> login], fork |-> fork, archived |-> archived,
     size |-> 500, pushed_at |-> Timestamp(NowTick - age_days * TicksPerDay)]

\* the records the listings may hold: a core repo in two versions (the second one
\* archived), two old forks, the second without pushed_at, a repo of the org, and
\* a repo whose pushed_at is not an ISO-8601 string
RecordSamples ==
    {Repo("koreric75", "ArchitectAIPro", FALSE, FALSE, 2),
     Repo("koreric75", "ArchitectAIPro", FALSE, TRUE, 2),
     Repo("koreric75", "old-prototype", TRUE, FALSE, 400),
     [name |-> "alpha-fork", owner |-> [login |-> "koreric75"], fork |-> TRUE,
      archived |-> FALSE, size |-> 256],
     Repo("bluefalconink", "tools", FALSE, FALSE, 200),
     [name |-> "never-pushed", owner |-> [login |-> "koreric75"], fork |-> FALSE,
      archived |-> FALSE, size |-> 0, pushed_at |-> [parses |-> FALSE, tick |-> 0]]}

PageBodies ==
    {[recs |-> r, len |-> Len(r)] : r \in SeqsUpTo(RecordSamples, MaxBatch)}
    \cup
    {[recs |-> r, len |-> PER_PAGE] : r \in SeqsUpTo(RecordSamples, MaxBatch) \ {<< >>}}

\* the answers to a request for a page: a short page, a failure, and a full page
\* for the first MaxFullPages pages
PageResponses(p) ==
    {ServerError, TimedOut}
    \cup {Ok(b) : b \in {x \in PageBodies : x.len = PER_PAGE => p <= MaxFullPages}}

\* the pages of a listing that are followed; no run that keeps to its budget asks
\* for a page beyond this one
MaxPage == 310

\* a listing that answers every page request with a full page
Endless == 2 * MaxPage

\* the numbers of full pages a long /user/repos listing serves before its last,
\* empty page; the last two are more than the budget can fetch
LongListings == {MAX_API_CALLS - 20, MAX_API_CALLS - 3, MAX_API_CALLS + 5, Endless}

LongPage ==
    [recs |-> <<Repo("koreric75", "ArchitectAIPro", FALSE, FALSE, 2),
                Repo("koreric75", "old-prototype", TRUE, FALSE, 400)>>,
     len |-> PER_PAGE]

UserReposResponses(p) ==
    IF user_repo_pages = 0 THEN PageResponses(p)
    ELSE IF p <= user_repo_pages THEN {Ok(LongPage)}
    ELSE {Ok([recs |-> << >>, len |-> 0])}

\* `if not batch`: None or an empty list
NoBatch(batch) == batch = None \/ batch[1].len = 0

\* r.get("owner", {}).get("login", default)
LoginOf(r, default) == Get(Get(r, "owner", EmptyDict), "login", default)

KeyOf(login, r) == login \o "/" \o r.name

HasKey(items, key) == \E i \in 1..Len(items) : items[i].key = key

\* seen[key] = r: a new key goes last, a known key keeps its place
Put(items, key, r) ==
    IF HasKey(items, key)
    THEN [i \in 1..Len(items) |-> IF items[i].key = key THEN [key |-> key, repo |-> r]
                                  ELSE items[i]]
    ELSE Append(items, [key |-> key, repo |-> r])

\* lines 526-530: the owner's records of a /user/repos page, each stored under its key
RECURSIVE MergeUserRepos(_, _)
MergeUserRepos(items, recs) ==
    IF Len(recs) = 0 THEN items
    ELSE LET r          == Head(recs)
             repo_login == LoginOf(r, "")
         IN  IF ToLower(repo_login) = ToLower(Owner)
             THEN MergeUserRepos(Put(items, KeyOf(repo_login, r), r), Tail(recs))
             ELSE MergeUserRepos(items, Tail(recs))

\* the second and third loops keeping two records under one key
RECURSIVE MergeNew_NoDedup(_, _, _)
MergeNew_NoDedup(items, recs, default_login) ==
    IF Len(recs) = 0 THEN items
    ELSE LET r   == Head(recs)
             key == KeyOf(LoginOf(r, default_login), r)
         IN  MergeNew_NoDedup(Append(items, [key |-> key, repo |-> r]), Tail(recs),
                              default_login)

\* lines 543-547 and 562-566: the records of a page whose key is not yet in seen
RECURSIVE MergeNew(_, _, _)
MergeNew(items, recs, default_login) ==
    IF Len(recs) = 0 THEN items
    ELSE LET r   == Head(recs)
             key == KeyOf(LoginOf(r, default_login), r)
         IN  IF ~HasKey(items, key)
             THEN MergeNew(Put(items, key, r), Tail(recs), default_login)
             ELSE MergeNew(items, Tail(recs), default_login)

\* run_audit is called: the first loop starts at page 1 with seen = {}
StartRun ==
    /\ pc = "idle"
    /\ pc' = "user_repos"
    /\ page' = 1
    /\ seen' = << >>
    /\ \E n \in {0} \cup LongListings : user_repo_pages' = n
    /\ UNCHANGED <<api_call_count, http_requests, org_idx, repo_idx, iter, audit_results,
                   summary, report>>
    /\ UNCHANGED not_audit_vars

\* lines 520-533: one round of the /user/repos loop
ListUserRepos ==
    /\ pc = "user_repos"
    /\ page <= MaxPage
    /\ \E resp \in UserReposResponses(page) :
           LET g     == api_get(api_call_count, resp)
               batch == g.result
           IN  /\ api_call_count' = g.count
               /\ http_requests' = http_requests + g.issued
               /\ IF NoBatch(batch)
                  THEN /\ seen' = seen
                       /\ page' = 1
                       /\ pc' = "public_repos"
                  ELSE /\ seen' = MergeUserRepos(seen, batch[1].recs)
                       /\ IF batch[1].len < PER_PAGE
                          THEN page' = 1 /\ pc' = "public_repos"
                          ELSE page' = page + 1 /\ pc' = "user_repos"
    /\ UNCHANGED <<user_repo_pages, org_idx, repo_idx, iter, audit_results, summary, report>>
    /\ UNCHANGED not_audit_vars

\* where the loop over extra_orgs goes from org number i
OrgsFrom(i) == IF i <= Len(ExtraOrgs) THEN "org_repos" ELSE "enumerated"

\* lines 537-550: one round of the /users/{owner}/repos loop
ListPublicRepos ==
    /\ pc = "public_repos"
    /\ \E resp \in PageResponses(page) :
           LET g     == api_get(api_call_count, resp)
               batch == g.result
           IN  /\ api_call_count' = g.count
               /\ http_requests' = http_requests + g.issued
               /\ IF NoBatch(batch)
                  THEN /\ seen' = seen
                       /\ page' = 1 /\ org_idx' = 1 /\ pc' = OrgsFrom(1)
                  ELSE /\ seen' = MergeNew(seen, batch[1].recs, Owner)
                       /\ IF batch[1].len < PER_PAGE
                          THEN page' = 1 /\ org_idx' = 1 /\ pc' = OrgsFrom(1)
                          ELSE page' = page + 1 /\ org_idx' = org_idx /\ pc' = "public_repos"
    /\ UNCHANGED <<user_repo_pages, repo_idx, iter, audit_results, summary, report>>
    /\ UNCHANGED not_audit_vars

\* lines 553-569: one round of the /orgs/{org}/repos loop of the org being listed
ListOrgRepos ==
    /\ pc = "org_repos"
    /\ \E resp \in PageResponses(page) :
           LET g     == api_get(api_call_count, resp)
               batch == g.result
               org   == ExtraOrgs[org_idx]
           IN  /\ api_call_count' = g.count
               /\ http_requests' = http_requests + g.issued
               /\ IF NoBatch(batch)
                  THEN /\ seen' = seen
                       /\ page' = 1 /\ org_idx' = org_idx + 1 /\ pc' = OrgsFrom(org_idx + 1)
                  ELSE /\ seen' = MergeNew(seen, batch[1].recs, org)
                       /\ IF batch[1].len < PER_PAGE
                          THEN page' = 1 /\ org_idx' = org_idx + 1
                               /\ pc' = OrgsFrom(org_idx + 1)
                          ELSE page' = page + 1 /\ org_idx' = org_idx /\ pc' = "org_repos"
    /\ UNCHANGED <<user_repo_pages, repo_idx, iter, audit_results, summary, report>>
    /\ UNCHANGED not_audit_vars

(***************************************************************************)
(* What the repositories hold, as GitHub would answer for them.  Only      *)
(* koreric75/ArchitectAIPro holds anything; every other resource is a 404. *)
(***************************************************************************)
CoreKey == "koreric75/ArchitectAIPro"

\* contents/{path}: the file's text
FileAnswer(key, path) ==
    IF key = CoreKey /\ path = "README.md" THEN Ok("Blue Falcon RC & Media")
    ELSE IF key = CoreKey /\ path = "requirements.txt" THEN Ok("redis")
    ELSE NotFound

\* contents/terraform and contents/.github/workflows: the directory's entries
DirectoryAnswer(key, path) == NotFound

\* actions/secrets
SecretsAnswer(key) ==
    IF key = CoreKey
    THEN Ok([total_count |-> 2,
             secrets |-> <<[name |-> "GEMINI_API_KEY"], [name |-> "GCP_SA_KEY"]>>])
    ELSE NotFound

\* actions/runs
RunsAnswer(key) ==
    IF key = CoreKey
    THEN Ok([total_count |-> 12,
             workflow_runs |-> <<[name |-> "CI", status |-> "completed",
                                  conclusion |-> "failure", created_at |-> "t2"],
                                 [name |-> "CI", status |-> "completed",
                                  conclusion |-> "success", created_at |-> "t1"]>>])
    ELSE NotFound

(***************************************************************************)
(* The deep audits.  Each takes the counter at its start and the responses *)
(* of its requests in call order, and gives the counter after it, the      *)
(* requests made and its return value.                                     *)
(***************************************************************************)
BRAND_CORRECT == <<"BlueFalconInk LLC", "BlueFalconInk", "bluefalconink">>
BRAND_INCORRECT ==
    <<"Blue Falcon RC & Media", "Blue Falcon RC and Media", "BlueFalcon RC & Media",
      "bluefalcon rc", "@BlueFalconRCandMedia">>

BrandingFiles == <<"README.md", "package.json", "pyproject.toml", "LICENSE", "ARCHITECT_CONFIG.json">>

\* lines 254-260: the issues of one file
RECURSIVE FileIssues(_, _, _)
FileIssues(fname, content_lower, bads) ==
    IF Len(bads) = 0 THEN << >>
    ELSE (IF Contains(content_lower, ToLower(Head(bads)))
          THEN <<[file  |-> fname,
                  found |-> Head(bads),
                  fix   |-> "Replace '" \o Head(bads) \o "' with 'BlueFalconInk LLC'"]>>
          ELSE << >>)
         \o FileIssues(fname, content_lower, Tail(bads))

\* lines 247-260 over the fetched contents
RECURSIVE BrandingIssues(_, _)
BrandingIssues(fnames, contents) ==
    IF Len(fnames) = 0 THEN << >>
    ELSE (IF Head(contents) = None THEN << >>
          ELSE FileIssues(Head(fnames), ToLower(Head(contents)[1]), BRAND_INCORRECT))
         \o BrandingIssues(Tail(fnames), Tail(contents))

audit_branding(count, resps) ==
    LET got           == GetTextEach(count, resps)
        contents      == got.results
        files_checked == Cardinality({i \in 1..Len(contents) : contents[i] # None})
        issues        == BrandingIssues(BrandingFiles, contents)
        \* `content` after the loop: the last file fetched
        content       == contents[Len(contents)]
        last_lower    == IF content = None THEN "" ELSE ToLower(content[1])
    IN  [count  |-> got.count,
         issued |-> got.issued,
         value  |-> [files_checked |-> files_checked,
                     issues        |-> issues,
                     compliant     |-> Len(issues) = 0,
                     has_branding  |-> IF files_checked > 0
                                       THEN \E i \in 1..Len(BRAND_CORRECT) :
                                                Contains(last_lower, ToLower(BRAND_CORRECT[i]))
                                       ELSE FALSE]]

ArchFiles ==
    <<"docs/architecture.md", "docs/architecture.mermaid", "docs/architecture.png",
      "docs/architecture.drawio", "ARCHITECT_CONFIG.json">>

\* resps: the five files, then the workflows directory
audit_architecture(count, resps) ==
    LET got          == GetEach(count, resps)
        arch_files   == [i \in 1..Len(ArchFiles) |-> got.results[i] # None]
        workflows    == got.results[Len(ArchFiles) + 1]
        has_workflow == /\ workflows # None
                        /\ \E i \in 1..Len(workflows[1]) :
                               Contains(ToLower(workflows[1][i].name), "architecture")
    IN  [count  |-> got.count,
         issued |-> got.issued,
         value  |-> [files            |-> arch_files,
                     has_workflow     |-> has_workflow,
                     fully_configured |-> (\A i \in 1..Len(ArchFiles) : arch_files[i])
                                          /\ has_workflow]]

\* audit_secrets with the AI-provider key looked for inside the names
audit_secrets_GeminiBySubstring(count, resp) ==
    LET g            == api_get(count, resp)
        secret_names == IF g.result # None /\ "secrets" \in DOMAIN g.result[1]
                        THEN [i \in 1..Len(g.result[1].secrets) |-> g.result[1].secrets[i].name]
                        ELSE << >>
    IN  [count  |-> g.count,
         issued |-> g.issued,
         value  |-> [secrets        |-> secret_names,
                     has_gemini_key |-> \E i \in 1..Len(secret_names) :
                                            Contains(secret_names[i], "GEMINI_API_KEY"),
                     has_gcp_creds  |-> \E i \in 1..Len(secret_names) :
                                            \/ Contains(secret_names[i], "GCP")
                                            \/ Contains(secret_names[i], "GOOGLE")]]

\* lines 307-320
audit_secrets(count, resp) ==
    LET g            == api_get(count, resp)
        secret_names == IF g.result # None /\ "secrets" \in DOMAIN g.result[1]
                        THEN [i \in 1..Len(g.result[1].secrets) |-> g.result[1].secrets[i].name]
                        ELSE << >>
    IN  [count  |-> g.count,
         issued |-> g.issued,
         value  |-> [secrets        |-> secret_names,
                     has_gemini_key |-> "GEMINI_API_KEY" \in Range(secret_names),
                     has_gcp_creds  |-> \E i \in 1..Len(secret_names) :
                                            \/ Contains(secret_names[i], "GCP")
                                            \/ Contains(secret_names[i], "GOOGLE")]]

FirstFive(seq) == SubSeq(seq, 1, IF Len(seq) < 5 THEN Len(seq) ELSE 5)

audit_workflows(count, resp) ==
    LET g == api_get(count, resp)
    IN  IF g.result = None \/ "workflow_runs" \notin DOMAIN g.result[1]
        THEN [count |-> g.count, issued |-> g.issued,
              value |-> [total_runs |-> 0, recent_runs |-> << >>]]
        ELSE LET runs    == FirstFive(g.result[1].workflow_runs)
                 failing == Cardinality({i \in 1..Len(runs) : runs[i].conclusion = "failure"})
             IN  [count  |-> g.count,
                  issued |-> g.issued,
                  value  |-> [total_runs      |-> Get(g.result[1], "total_count", 0),
                              recent_runs     |-> runs,
                              recent_failures |-> failing,
                              health          |-> IF failing = 0 THEN "HEALTHY"
                                                  ELSE IF failing < 3 THEN "DEGRADED"
                                                  ELSE "FAILING"]]

ScanFiles ==
    <<"package.json", "requirements.txt", "pyproject.toml", "Pipfile", "docker-compose.yml",
      "docker-compose.yaml", "Dockerfile", ".env.example", ".env.sample", "vercel.json",
      "netlify.toml", "wrangler.toml">>

EndsWith(str, suffix) ==
    Len(str) >= Len(suffix) /\ SubSeq(str, Len(str) - Len(suffix) + 1, Len(str)) = suffix

\* lines 374-380: the .tf entries of the terraform listing
RECURSIVE TfFiles(_)
TfFiles(entries) ==
    IF Len(entries) = 0 THEN << >>
    ELSE (IF EndsWith(Head(entries).name, ".tf")
          THEN <<"terraform/" \o Head(entries).name>> ELSE << >>)
         \o TfFiles(Tail(entries))

\* lines 359-382: the terraform listing and all_files
ListTerraform(count, tf_resp) ==
    LET tf == api_get(count, tf_resp)
    IN  [count     |-> tf.count,
         issued    |-> tf.issued,
         all_files |-> ScanFiles \o (IF tf.result # None THEN TfFiles(tf.result[1])
                                     ELSE << >>)]

\* lines 384-422: the files of all_files fetched in order, then scanned
ScanRepoFiles(count, file_resps) ==
    LET got == GetTextEach(count, file_resps)
    IN  [count  |-> got.count,
         issued |-> got.issued,
         value  |-> detect_third_party_services(got.results, LiteralOrder)]

(***************************************************************************)
(* run_audit, the per-repo loop and the report (lines 571-713).            *)
(* Amounts of disk are in tenths of a MB.  The result fields that only     *)
(* copy the record (description, url, is_private, language) are left out.  *)
(***************************************************************************)
Repos == [i \in 1..Len(seen) |-> seen[i].repo]

InitialSummary ==
    [total_repos        |-> Len(seen),
     owners_scanned     |-> <<Owner>> \o ExtraOrgs,
     core               |-> 0,
     active             |-> 0,
     stale              |-> 0,
     dead               |-> 0,
     forks              |-> 0,
     archived           |-> 0,
     delete_candidates  |-> << >>,
     archive_candidates |-> << >>,
     branding_issues    |-> << >>,
     total_disk_mb      |-> 0,
     total_monthly_burn |-> 0]

\* lines 571-586: repos = list(seen.values()), audit_results = [], summary = {...}
StartAudits ==
    /\ pc = "enumerated"
    /\ pc' = "audit"
    /\ repo_idx' = 1
    /\ audit_results' = << >>
    /\ summary' = InitialSummary
    /\ UNCHANGED <<api_call_count, http_requests, user_repo_pages, page, org_idx, seen,
                   iter, report>>
    /\ UNCHANGED not_audit_vars

DefaultBranding == [compliant |-> TRUE, issues |-> << >>, files_checked |-> 0]
DefaultArchitecture == [fully_configured |-> FALSE, has_workflow |-> FALSE, files |-> << >>]
DefaultSecrets == [has_gemini_key |-> FALSE]
DefaultWorkflows == [health |-> "UNKNOWN", recent_runs |-> << >>]

\* repo.get("pushed_at", "2000-01-01T00:00:00Z")
DefaultPushedAt == Timestamp(0)

\* the deep audits run for every repo
DeepAuditTiers_Every ==
    {"CORE", "ACTIVE", "DORMANT", "STALE", "DEAD", "LEGACY_FORK", "FORK", "ARCHIVED"}

\* line 609: the preliminary tiers that get the deep audits
DeepAuditTiers == {"CORE", "ACTIVE", "DORMANT"}

\* lines 588-609: the head of the loop body, up to the test on the preliminary tier
AuditStaleness ==
    /\ pc = "audit"
    /\ repo_idx <= Len(seen)
    /\ LET repo      == Repos[repo_idx]
           staleness == audit_staleness(Get(repo, "pushed_at", DefaultPushedAt), NowTick)
       IN  IF Raised(staleness)
           THEN /\ pc' = "raised"
                /\ iter' = iter
           ELSE LET pre_class == classify_repo(repo, staleness, NoServices)
                IN  /\ iter' = [name           |-> repo.name,
                                repo_owner     |-> LoginOf(repo, Owner),
                                default_branch |-> Get(repo, "default_branch", "main"),
                                staleness      |-> staleness,
                                branding       |-> DefaultBranding,
                                architecture   |-> DefaultArchitecture,
                                secrets        |-> DefaultSecrets,
                                workflows      |-> DefaultWorkflows,
                                services       |-> EmptyServices,
                                pre_class      |-> pre_class]
                    /\ pc' = IF pre_class.tier \in DeepAuditTiers
                             THEN "branding" ELSE "classify"
    /\ UNCHANGED <<api_call_count, http_requests, user_repo_pages, page, org_idx, seen,
                   repo_idx, audit_results, summary, report>>
    /\ UNCHANGED not_audit_vars

IterKey == iter.repo_owner \o "/" \o iter.name

OutcomesOfFiles(key, paths) == Product([i \in 1..Len(paths) |-> Outcomes(FileAnswer(key, paths[i]))])

\* line 610
AuditBranding ==
    /\ pc = "branding"
    /\ \E resps \in OutcomesOfFiles(IterKey, BrandingFiles) :
           LET a == audit_branding(api_call_count, resps)
           IN  /\ api_call_count' = a.count
               /\ http_requests' = http_requests + a.issued
               /\ iter' = [iter EXCEPT !.branding = a.value]
    /\ pc' = "architecture"
    /\ UNCHANGED <<user_repo_pages, page, org_idx, seen, repo_idx, audit_results, summary,
                   report>>
    /\ UNCHANGED not_audit_vars

\* line 614
AuditArchitecture ==
    /\ pc = "architecture"
    /\ \E resps \in OutcomesOfFiles(IterKey, ArchFiles),
          wf \in Outcomes(DirectoryAnswer(IterKey, ".github/workflows")) :
           LET a == audit_architecture(api_call_count, Append(resps, wf))
           IN  /\ api_call_count' = a.count
               /\ http_requests' = http_requests + a.issued
               /\ iter' = [iter EXCEPT !.architecture = a.value]
    /\ pc' = "secrets"
    /\ UNCHANGED <<user_repo_pages, page, org_idx, seen, repo_idx, audit_results, summary,
                   report>>
    /\ UNCHANGED not_audit_vars

\* line 615
AuditSecrets ==
    /\ pc = "secrets"
    /\ \E resp \in Outcomes(SecretsAnswer(IterKey)) :
           LET a == audit_secrets(api_call_count, resp)
           IN  /\ api_call_count' = a.count
               /\ http_requests' = http_requests + a.issued
               /\ iter' = [iter EXCEPT !.secrets = a.value]
    /\ pc' = "workflows"
    /\ UNCHANGED <<user_repo_pages, page, org_idx, seen, repo_idx, audit_results, summary,
                   report>>
    /\ UNCHANGED not_audit_vars

\* line 616
AuditWorkflows ==
    /\ pc = "workflows"
    /\ \E resp \in Outcomes(RunsAnswer(IterKey)) :
           LET a == audit_workflows(api_call_count, resp)
           IN  /\ api_call_count' = a.count
               /\ http_requests' = http_requests + a.issued
               /\ iter' = [iter EXCEPT !.workflows = a.value]
    /\ pc' = "services"
    /\ UNCHANGED <<user_repo_pages, page, org_idx, seen, repo_idx, audit_results, summary,
                   report>>
    /\ UNCHANGED not_audit_vars

\* line 619
DetectServices ==
    /\ pc = "services"
    /\ \E tf_resp \in Outcomes(DirectoryAnswer(IterKey, "terraform")) :
           LET tf == ListTerraform(api_call_count, tf_resp)
           IN  \E resps \in OutcomesOfFiles(IterKey, tf.all_files) :
                   LET a == ScanRepoFiles(tf.count, resps)
                   IN  /\ api_call_count' = a.count
                       /\ http_requests' = http_requests + tf.issued + a.issued
                       /\ iter' = [iter EXCEPT !.services = a.value]
    /\ pc' = "classify"
    /\ UNCHANGED <<user_repo_pages, page, org_idx, seen, repo_idx, audit_results, summary,
                   report>>
    /\ UNCHANGED not_audit_vars

\* the summary with the old forks left out of the dead counter
UpdatedSummary_LegacyForkUncounted(sm, repo, result) ==
    LET tier   == result.classification.tier
        action == result.classification.action
    IN  [sm EXCEPT
            !.core = IF tier = "CORE" THEN @ + 1 ELSE @,
            !.active = IF tier = "ACTIVE" THEN @ + 1 ELSE @,
            !.stale = IF tier \in {"STALE", "DORMANT"} THEN @ + 1 ELSE @,
            !.dead = IF tier = "DEAD" THEN @ + 1 ELSE @,
            !.forks = IF Get(repo, "fork", FALSE) THEN @ + 1 ELSE @,
            !.archived = IF Get(repo, "archived", FALSE) THEN @ + 1 ELSE @,
            !.delete_candidates = IF action = "DELETE" THEN Append(@, result.full_name) ELSE @,
            !.archive_candidates = IF action \in {"ARCHIVE", "ARCHIVE_OR_DELETE"}
                                   THEN Append(@, result.full_name) ELSE @,
            !.branding_issues = IF Len(result.branding.issues) > 0
                                THEN Append(@, [repo    |-> result.full_name,
                                                count   |-> Len(result.branding.issues),
                                                details |-> result.branding.issues])
                                ELSE @,
            !.total_disk_mb = @ + result.classification.disk_mb,
            !.total_monthly_burn = @ + result.classification.monthly_burn_estimate]

\* the summary with the stale repos listed for deletion as well
UpdatedSummary_StaleListedForDeletion(sm, repo, result) ==
    LET tier   == result.classification.tier
        action == result.classification.action
    IN  [sm EXCEPT
            !.core = IF tier = "CORE" THEN @ + 1 ELSE @,
            !.active = IF tier = "ACTIVE" THEN @ + 1 ELSE @,
            !.stale = IF tier \in {"STALE", "DORMANT"} THEN @ + 1 ELSE @,
            !.dead = IF tier \in {"DEAD", "LEGACY_FORK"} THEN @ + 1 ELSE @,
            !.forks = IF Get(repo, "fork", FALSE) THEN @ + 1 ELSE @,
            !.archived = IF Get(repo, "archived", FALSE) THEN @ + 1 ELSE @,
            !.delete_candidates = IF action \in {"DELETE", "ARCHIVE"} THEN Append(@, result.full_name) ELSE @,
            !.archive_candidates = IF action \in {"ARCHIVE", "ARCHIVE_OR_DELETE"}
                                   THEN Append(@, result.full_name) ELSE @,
            !.branding_issues = IF Len(result.branding.issues) > 0
                                THEN Append(@, [repo    |-> result.full_name,
                                                count   |-> Len(result.branding.issues),
                                                details |-> result.branding.issues])
                                ELSE @,
            !.total_disk_mb = @ + result.classification.disk_mb,
            !.total_monthly_burn = @ + result.classification.monthly_burn_estimate]

\* lines 656-685: the summary after one more result
UpdatedSummary(sm, repo, result) ==
    LET tier   == result.classification.tier
        action == result.classification.action
    IN  [sm EXCEPT
            !.core = IF tier = "CORE" THEN @ + 1 ELSE @,
            !.active = IF tier = "ACTIVE" THEN @ + 1 ELSE @,
            !.stale = IF tier \in {"STALE", "DORMANT"} THEN @ + 1 ELSE @,
            !.dead = IF tier \in {"DEAD", "LEGACY_FORK"} THEN @ + 1 ELSE @,
            !.forks = IF Get(repo, "fork", FALSE) THEN @ + 1 ELSE @,
            !.archived = IF Get(repo, "archived", FALSE) THEN @ + 1 ELSE @,
            !.delete_candidates = IF action = "DELETE" THEN Append(@, result.full_name) ELSE @,
            !.archive_candidates = IF action \in {"ARCHIVE", "ARCHIVE_OR_DELETE"}
                                   THEN Append(@, result.full_name) ELSE @,
            !.branding_issues = IF Len(result.branding.issues) > 0
                                THEN Append(@, [repo    |-> result.full_name,
                                                count   |-> Len(result.branding.issues),
                                                details |-> result.branding.issues])
                                ELSE @,
            !.total_disk_mb = @ + result.classification.disk_mb,
            !.total_monthly_burn = @ + result.classification.monthly_burn_estimate]

\* lines 629-685: the final classification, the result and the summary
RecordResult ==
    /\ pc = "classify"
    /\ LET repo           == Repos[repo_idx]
           classification == classify_repo(repo, iter.staleness, iter.services)
           result == [name           |-> iter.name,
                      owner          |-> iter.repo_owner,
                      full_name      |-> iter.repo_owner \o "/" \o iter.name,
                      is_fork        |-> Get(repo, "fork", FALSE),
                      is_archived    |-> Get(repo, "archived", FALSE),
                      default_branch |-> iter.default_branch,
                      disk_usage_kb  |-> Get(repo, "diskUsage", Get(repo, "size", 0)),
                      staleness      |-> iter.staleness,
                      classification |-> classification,
                      branding       |-> iter.branding,
                      architecture   |-> iter.architecture,
                      secrets        |-> iter.secrets,
                      workflows      |-> iter.workflows,
                      services       |-> iter.services]
       IN  /\ audit_results' = Append(audit_results, result)
           /\ summary' = UpdatedSummary(summary, repo, result)
    /\ repo_idx' = repo_idx + 1
    /\ iter' = NoValue
    /\ pc' = "audit"
    /\ UNCHANGED <<api_call_count, http_requests, user_repo_pages, page, org_idx, seen,
                   report>>
    /\ UNCHANGED not_audit_vars

\* {"CORE": 0, ...}.get(tier, 9)
TierRank(tier) ==
    CASE tier = "CORE" -> 0
      [] tier = "ACTIVE" -> 1
      [] tier = "DORMANT" -> 2
      [] tier = "STALE" -> 3
      [] tier = "DEAD" -> 4
      [] tier = "LEGACY_FORK" -> 5
      [] tier = "FORK" -> 6
      [] tier = "ARCHIVED" -> 7
      [] OTHER -> 9

\* the sort key compared without the name
SortKeyLess_TierOnly(a, b) ==
    TierRank(a.classification.tier) < TierRank(b.classification.tier)

\* (rank(a), a["name"]) < (rank(b), b["name"])
SortKeyLess(a, b) ==
    \/ TierRank(a.classification.tier) < TierRank(b.classification.tier)
    \/ /\ TierRank(a.classification.tier) = TierRank(b.classification.tier)
       /\ StrLess(a.name, b.name)

\* x put before the first element of a sorted list that its key is less than
InsertByKey(sorted, x) ==
    LET before == {i \in 1..Len(sorted) : \A j \in 1..i : ~SortKeyLess(x, sorted[j])}
        n      == Cardinality(before)
    IN  SubSeq(sorted, 1, n) \o <<x>> \o SubSeq(sorted, n + 1, Len(sorted))

\* sorted(audit_results, key=...): stable
RECURSIVE SortedByKey(_, _)
SortedByKey(sorted, rest) ==
    IF Len(rest) = 0 THEN sorted
    ELSE SortedByKey(InsertByKey(sorted, Head(rest)), Tail(rest))

\* lines 687-713: the report
BuildReport ==
    /\ pc = "audit"
    /\ repo_idx > Len(seen)
    /\ report' = [audit_timestamp |-> NowTick,
                  owner           |-> Owner,
                  owners          |-> <<Owner>> \o ExtraOrgs,
                  org_name        |-> "BlueFalconInk LLC",
                  api_calls_used  |-> api_call_count,
                  summary         |-> summary,
                  repos           |-> SortedByKey(<< >>, audit_results)]
    /\ pc' = "done"
    /\ UNCHANGED <<api_call_count, http_requests, user_repo_pages, page, org_idx, seen,
                   repo_idx, iter, audit_results, summary>>
    /\ UNCHANGED not_audit_vars

Next ==
    \/ StartRun
    \/ ListUserRepos
    \/ ListPublicRepos
    \/ ListOrgRepos
    \/ StartAudits
    \/ AuditStaleness
    \/ AuditBranding
    \/ AuditArchitecture
    \/ AuditSecrets
    \/ AuditWorkflows
    \/ DetectServices
    \/ RecordResult
    \/ BuildReport

Spec == Init /\ [][Next]_vars

\* no step of run_audit can be taken: it has returned or raised, or the listing
\* is past the pages that are followed
RunStopped ==
    \/ pc \in {"done", "raised"}
    \/ pc = "user_repos" /\ page > MaxPage

\* run_audit runs on from call to return: nothing in it waits, and every request
\* is answered or times out after 30 seconds.  A step can be taken exactly when
\* RunStopped is false, so the last conjunct is weak fairness of Next,
\* WF_vars(Next), written without ENABLED.
SpecFair == Spec /\ WF_vars(StartRun) /\ ([]<>RunStopped \/ []<><<Next>>_vars)

(***************************************************************************)
(* Properties of run_audit.                                                *)
(***************************************************************************)
InAuditLoop ==
    pc \in {"audit", "branding", "architecture", "secrets", "workflows", "services",
            "classify", "raised", "done"}

\* C6: in a run of run_audit that starts with the counter at zero, the requests
\* that api_get and api_get_text actually send never number more than
\* MAX_API_CALLS, however many pages, sources and repos the run goes through.
C6_BudgetRespected ==
    /\ http_requests <= MAX_API_CALLS
    /\ http_requests <= api_call_count

\* a finished run that asked for more calls than the ceiling and sent exactly
\* the ceiling
C6_Witness ==
    /\ pc = "done"
    /\ api_call_count > MAX_API_CALLS
    /\ http_requests = MAX_API_CALLS
    /\ Len(report.repos) >= 2

\* C7: the set of repos that run_audit audits holds no two records under one
\* owner/name key, whatever the listings and their pages repeat; every key is
\* audited once, in the order of the set, and counted once in total_repos.
C7_NoDuplicateKeys ==
    /\ \A i, j \in 1..Len(seen) : seen[i].key = seen[j].key => i = j
    /\ \A i \in 1..Len(seen) : seen[i].key = KeyOf(LoginOf(seen[i].repo, Owner), seen[i].repo)
    /\ InAuditLoop =>
          /\ summary.total_repos = Len(seen)
          /\ Len(audit_results) <= Len(seen)
          /\ \A i \in 1..Len(audit_results) : audit_results[i].full_name = seen[i].key
    /\ pc = "done" => Len(audit_results) = Len(seen)

\* a finished run whose first listing returned the same two repos on every one of
\* its many pages and whose other listings added a third
C7_Witness ==
    /\ pc = "done"
    /\ user_repo_pages = MAX_API_CALLS - 20
    /\ summary.total_repos = 3
    /\ Len(report.repos) = 3

ClaimedTierOrder ==
    <<"CORE", "ACTIVE", "DORMANT", "STALE", "DEAD", "LEGACY_FORK", "FORK", "ARCHIVED">>

ClaimedRank(tier) == CHOOSE i \in 1..Len(ClaimedTierOrder) : ClaimedTierOrder[i] = tier

\* C8: the repos of the report are in the order of the tiers CORE, ACTIVE,
\* DORMANT, STALE, DEAD, LEGACY_FORK, FORK, ARCHIVED and, within a tier, in
\* ascending order of name: no entry is followed by one of an earlier tier, nor
\* by one of its own tier with a smaller name.  The list holds every result.
C8_ReportSorted ==
    pc = "done" =>
        /\ Len(report.repos) = Len(audit_results)
        /\ \A r \in Range(audit_results) : r \in Range(report.repos)
        /\ \A i \in 1..Len(report.repos) :
               report.repos[i].classification.tier \in Range(ClaimedTierOrder)
        /\ \A i, j \in 1..Len(report.repos) :
               i < j =>
                   LET a == report.repos[i]
                       b == report.repos[j]
                   IN  /\ ClaimedRank(a.classification.tier) <= ClaimedRank(b.classification.tier)
                       /\ a.classification.tier = b.classification.tier
                              => ~StrLess(b.name, a.name)

\* a report whose order is not the order of the audits: two forks of one tier
\* audited in descending order of name, and a repo of an earlier tier after them
C8_Witness ==
    /\ pc = "done"
    /\ Len(audit_results) = 3
    /\ audit_results[1].name = "old-prototype"
    /\ audit_results[2].name = "alpha-fork"
    /\ audit_results[1].classification.tier = audit_results[2].classification.tier
    /\ audit_results[3].classification.tier = "CORE"
    /\ report.repos[1].name = "ArchitectAIPro"
    /\ report.repos[2].name = "alpha-fork"
    /\ report.repos[3].name = "old-prototype"

\* the preliminary tier of the i-th repo of the run
PreliminaryTier(i) ==
    classify_repo(seen[i].repo, audit_results[i].staleness, NoServices).tier

NotDeeplyAudited(tier) == tier \notin {"CORE", "ACTIVE", "DORMANT"}

\* C11: while run_audit is on a repo whose preliminary tier is not CORE, ACTIVE
\* or DORMANT it makes no remote call (the call counter and the requests sent
\* stay as they are), and the repo's result carries the default branding,
\* architecture, secrets, workflows and services.
C11_ShallowAuditIsFree ==
    /\ [](InAuditLoop =>
            \A i \in 1..Len(audit_results) :
                NotDeeplyAudited(PreliminaryTier(i)) =>
                    /\ audit_results[i].branding =
                           [compliant |-> TRUE, issues |-> << >>, files_checked |-> 0]
                    /\ audit_results[i].architecture =
                           [fully_configured |-> FALSE, has_workflow |-> FALSE, files |-> << >>]
                    /\ audit_results[i].secrets = [has_gemini_key |-> FALSE]
                    /\ audit_results[i].workflows = [health |-> "UNKNOWN", recent_runs |-> << >>]
                    /\ audit_results[i].services =
                           [services |-> << >>, service_details |-> << >>, third_party_cost |-> 0])
    /\ [][(iter # NoValue /\ NotDeeplyAudited(iter.pre_class.tier))
             => (api_call_count' = api_call_count /\ http_requests' = http_requests)]_vars

\* a finished run that audited an old fork without a call and a core repo with calls
C11_Witness ==
    /\ pc = "done"
    /\ Len(audit_results) = 2
    /\ NotDeeplyAudited(PreliminaryTier(1))
    /\ audit_results[1].classification.tier = "LEGACY_FORK"
    /\ ~NotDeeplyAudited(PreliminaryTier(2))
    /\ audit_results[2].branding.files_checked > 0
    /\ http_requests > 10

HasTimestamp(r) == "pushed_at" \in DOMAIN r /\ r.pushed_at.parses

\* C12: a repo record whose last-push timestamp is missing or does not parse gets
\* no staleness: its evaluation raises, and no status is ever computed for it
\* from a date put in its place.
C12_NoSubstitutedDate ==
    /\ \A i \in 1..Len(audit_results) : HasTimestamp(seen[i].repo)
    /\ (InAuditLoop /\ iter # NoValue) => HasTimestamp(Repos[repo_idx])

\* C13: whatever remote calls of the deep audits fail, the report that run_audit
\* returns has its audit_timestamp, owner, summary and repos, and every entry of
\* repos has branding.compliant, architecture.fully_configured,
\* secrets.has_gemini_key, workflows.health and services.third_party_cost.
C13_DegradedReportComplete ==
    pc = "done" =>
        /\ {"audit_timestamp", "owner", "summary", "repos"} \subseteq DOMAIN report
        /\ report.summary # NoValue
        /\ Len(report.repos) = Len(seen)
        /\ \A i \in 1..Len(report.repos) :
               LET e == report.repos[i]
               IN  /\ "compliant" \in DOMAIN e.branding
                   /\ "fully_configured" \in DOMAIN e.architecture
                   /\ "has_gemini_key" \in DOMAIN e.secrets
                   /\ "health" \in DOMAIN e.workflows
                   /\ "third_party_cost" \in DOMAIN e.services

\* C14: for every timestamp that parses, earlier or later than the clock,
\* audit_staleness returns a whole number of days days_since_push >= 0 and one
\* status among ACTIVE, DORMANT, STALE, DEAD.
C14_DaysNeverNegative ==
    (IsStalenessCall(call) /\ call.pushed_at.parses) =>
        /\ ~Raised(ret)
        /\ ret.days_since_push \in Nat
        /\ ret.status \in {"ACTIVE", "DORMANT", "STALE", "DEAD"}

BudgetExceeded == api_call_count > MAX_API_CALLS

\* C17: once the call counter is above MAX_API_CALLS no later call of the run
\* sends a request; a listing round then adds nothing and ends its loop, each
\* deep audit gives its empty value, and the run goes on to a report with one
\* entry per enumerated repo.
C17_NoCallsAfterBudget ==
    /\ [][BudgetExceeded =>
            /\ http_requests' = http_requests
            /\ pc \in {"user_repos", "public_repos", "org_repos"} =>
                   (seen' = seen /\ pc' # pc /\ api_call_count' = api_call_count + 1)
            /\ pc = "branding" =>
                   iter'.branding = [files_checked |-> 0, issues |-> << >>,
                                     compliant |-> TRUE, has_branding |-> FALSE]
            /\ pc = "architecture" =>
                   /\ \A i \in DOMAIN iter'.architecture.files :
                          ~iter'.architecture.files[i]
                   /\ ~iter'.architecture.has_workflow
                   /\ ~iter'.architecture.fully_configured
            /\ pc = "secrets" =>
                   iter'.secrets = [secrets |-> << >>, has_gemini_key |-> FALSE,
                                    has_gcp_creds |-> FALSE]
            /\ pc = "workflows" =>
                   (iter'.workflows.total_runs = 0 /\ iter'.workflows.recent_runs = << >>)
            /\ pc = "services" =>
                   iter'.services = [services |-> << >>, service_details |-> << >>,
                                     third_party_cost |-> 0]]_vars
    /\ []((BudgetExceeded /\ pc = "done") =>
             /\ Len(report.repos) = Len(seen)
             /\ report.api_calls_used = api_call_count
             /\ report.summary.total_repos = Len(seen))

\* a finished run whose listing used up the budget and whose core repo was then
\* audited without a request
C17_Witness ==
    /\ pc = "done"
    /\ http_requests = MAX_API_CALLS
    /\ api_call_count > MAX_API_CALLS + 20
    /\ \E i \in 1..Len(report.repos) :
           /\ report.repos[i].classification.tier = "CORE"
           /\ report.repos[i].branding.files_checked = 0
           /\ report.repos[i].workflows.total_runs = 0

\* every timestamp a record has is one that parses
TimestampsParse ==
    \A i \in 1..Len(seen) :
        "pushed_at" \in DOMAIN seen[i].repo => seen[i].repo.pushed_at.parses

\* C18: whatever the remote calls answer (a body, a 404, another status, a
\* timeout, a refusal by the budget), and also when a listing answers every page
\* request with a full page, a run of run_audit that has been called ends: it
\* returns a report with one entry per enumerated repo, all of whose timestamps
\* parse, or it raises, and then the timestamp of some enumerated record does
\* not parse.
C18_RunTerminates ==
    (pc = "user_repos") ~>
        \/ pc = "done" /\ Len(report.repos) = Len(seen) /\ TimestampsParse
        \/ pc = "raised" /\ ~TimestampsParse

\* a finished run over a /user/repos listing that never served a short page, in
\* which files of the core repo were asked for and refused
C18_Witness ==
    /\ pc = "done"
    /\ user_repo_pages = Endless
    /\ page = 1
    /\ TimestampsParse
    /\ Len(report.repos) = 2
    /\ api_call_count > MAX_API_CALLS
    /\ http_requests = MAX_API_CALLS

(***************************************************************************)
(* The cleanup agent (cleanup_agent.py).  A method is given self.dry_run   *)
(* and the state of the network w, and gives what it does to the agent and *)
(* to GitHub: the requests it sends, the messages it logs, the errors it   *)
(* records, in order, and its return value.  The actions below append      *)
(* these to the agent.  Log messages are kept without emoji and time.      *)
(***************************************************************************)
BRAND_MAP ==
    <<[old |-> "Blue Falcon RC & Media",   new |-> "BlueFalconInk LLC"],
      [old |-> "Blue Falcon RC and Media", new |-> "BlueFalconInk LLC"],
      [old |-> "BlueFalcon RC & Media",    new |-> "BlueFalconInk LLC"],
      [old |-> "@BlueFalconRCandMedia",    new |-> "BlueFalconInk LLC"]>>

\* str.replace(old, new): the occurrences of old, taken from the left and not
\* overlapping, each replaced by new
RECURSIVE Replace(_, _, _)
Replace(str, old, new) ==
    LET hits == {i \in 1..(Len(str) - Len(old) + 1) : SubSeq(str, i, i + Len(old) - 1) = old}
    IN  IF hits = {} THEN str
        ELSE LET first == CHOOSE i \in hits : \A j \in hits : i <= j
             IN  SubSeq(str, 1, first - 1) \o new
                 \o Replace(SubSeq(str, first + Len(old), Len(str)), old, new)

\* lines 116-117: every pair of BRAND_MAP applied in turn
RECURSIVE ApplyBrandMap(_, _)
ApplyBrandMap(content, pairs) ==
    IF Len(pairs) = 0 THEN content
    ELSE ApplyBrandMap(Replace(content, Head(pairs).old, Head(pairs).new), Tail(pairs))

\* base64: the text wrapped, and unwrapped again
B64Encode(text) == [base64 |-> text]
B64Decode(data) == data.base64

\* CleanupAgent(owner, token, dry_run)
NewCleanupAgent(dry_run) == [dry_run |-> dry_run, actions_taken |-> << >>, errors |-> << >>]

Nothing == [sent |-> << >>, logged |-> << >>, errors |-> << >>]

\* self.log(msg)
Log(e, msg) == [e EXCEPT !.logged = Append(@, msg)]

\* self.errors.append(msg)
LogError(e, msg) == [e EXCEPT !.errors = Append(@, msg)]

\* requests.get / requests.patch / requests.put being called
Send(e, method, repo_name, path) ==
    [e EXCEPT !.sent = Append(@, [method |-> method, repo |-> repo_name, path |-> path])]

\* one method's effects after another's
Then(e1, e2) ==
    [sent |-> e1.sent \o e2.sent, logged |-> e1.logged \o e2.logged,
     errors |-> e1.errors \o e2.errors]

Returning(e, value) ==
    [sent |-> e.sent, logged |-> e.logged, errors |-> e.errors, value |-> value]

\* the files the repositories hold
CleanupFileText(repo_name, file_path) ==
    IF repo_name = "ArchitectAIPro" /\ file_path = "README.md"
        THEN Some("Blue Falcon RC & Media / @BlueFalconRCandMedia")
    ELSE IF repo_name = "ArchitectAIPro" /\ file_path = "LICENSE"
        THEN Some("BlueFalconInk LLC")
    ELSE IF repo_name = "tools" /\ file_path = "ARCHITECT_CONFIG.json"
        THEN Some("bluefalcon rc")
    ELSE None

\* the response to GET contents/{file_path}
ContentsResponse(w, repo_name, file_path) ==
    LET text == CleanupFileText(repo_name, file_path)
    IN  IF ~w.get_ok THEN [status |-> 500]
        ELSE IF text = None THEN [status |-> 404]
        ELSE [status |-> 200, content |-> B64Encode(text[1]), sha |-> "sha-" \o file_path]

WriteStatus(w) == IF w.write_ok THEN 200 ELSE 500

\* archive_repo with the dry-run test left out
archive_repo_NoDryRunTest(dry_run, repo_name, w) ==
    LET e1 == Send(Log(Nothing, "Archive: " \o repo_name), "PATCH", repo_name, "")
    IN  IF WriteStatus(w) = 200
        THEN Returning(Log(e1, "Archived " \o repo_name), TRUE)
        ELSE Returning(Log(LogError(e1, "Archive " \o repo_name), "Failed"), FALSE)

\* lines 84-101
archive_repo(dry_run, repo_name, w) ==
    LET e0 == Log(Nothing, "Archive: " \o repo_name)
    IN  IF dry_run THEN Returning(e0, TRUE)
        ELSE LET e1 == Send(e0, "PATCH", repo_name, "")
             IN  IF WriteStatus(w) = 200
                 THEN Returning(Log(e1, "Archived " \o repo_name), TRUE)
                 ELSE Returning(Log(LogError(e1, "Archive " \o repo_name), "Failed"), FALSE)

\* lines 103-143
fix_branding_in_file(dry_run, repo_name, file_path, w) ==
    LET e0   == Send(Nothing, "GET", repo_name, file_path)
        resp == ContentsResponse(w, repo_name, file_path)
    IN  IF resp.status # 200 THEN Returning(e0, FALSE)
        ELSE LET original == B64Decode(resp.content)
                 content  == ApplyBrandMap(original, BRAND_MAP)
             IN  IF content = original THEN Returning(e0, FALSE)
                 ELSE LET e1 == Log(e0, "Fix branding: " \o repo_name \o "/" \o file_path)
                      IN  IF dry_run THEN Returning(e1, TRUE)
                          ELSE LET e2 == Send(e1, "PUT", repo_name, file_path)
                               IN  IF WriteStatus(w) \in {200, 201}
                                   THEN Returning(Log(e2, "Updated " \o file_path), TRUE)
                                   ELSE Returning(LogError(e2, "Brand fix " \o repo_name),
                                                  FALSE)

CleanupBrandingFiles ==
    <<"README.md", "package.json", "pyproject.toml", "LICENSE", "ARCHITECT_CONFIG.json",
      "src/index.html", "index.html">>

\* lines 149-153 from the file number i on
RECURSIVE FixBrandingFrom(_, _, _, _)
FixBrandingFrom(dry_run, repo_name, i, w) ==
    IF i > Len(CleanupBrandingFiles) THEN Returning(Nothing, 0)
    ELSE LET one  == fix_branding_in_file(dry_run, repo_name, CleanupBrandingFiles[i], w)
             rest == FixBrandingFrom(dry_run, repo_name, i + 1, w)
         IN  Returning(Then(one, rest), (IF one.value THEN 1 ELSE 0) + rest.value)

\* lines 145-153
fix_branding(dry_run, repo_name, w) == FixBrandingFrom(dry_run, repo_name, 1, w)

\* lines 155-194
deploy_config(dry_run, repo_name, w) ==
    LET e0 == Log(Nothing, "Deploy config: " \o repo_name \o "/ARCHITECT_CONFIG.json")
    IN  IF dry_run THEN Returning(e0, TRUE)
        ELSE LET e1 == Send(e0, "GET", repo_name, "ARCHITECT_CONFIG.json")
                 e2 == Send(e1, "PUT", repo_name, "ARCHITECT_CONFIG.json")
             IN  IF WriteStatus(w) \in {200, 201}
                 THEN Returning(Log(e2, "Config deployed"), TRUE)
                 ELSE Returning(LogError(e2, "Config " \o repo_name), FALSE)

\* lines 201-223: the body of the loop for one repo of the report
CleanupOneRepo(dry_run, repo, actions, w) ==
    LET name   == repo.name
        tier   == repo.classification.tier
        action == repo.classification.action
        a == IF /\ "archive" \in actions
                /\ action \in {"ARCHIVE", "ARCHIVE_OR_DELETE"}
                /\ ~Get(repo, "is_archived", FALSE)
             THEN archive_repo(dry_run, name, w)
             ELSE Returning(Nothing, FALSE)
        b == IF "brand" \in actions /\ ~Get(Get(repo, "branding", EmptyDict), "compliant", TRUE)
             THEN fix_branding(dry_run, name, w)
             ELSE Returning(Nothing, 0)
        c == IF /\ "deploy" \in actions
                /\ tier \in {"CORE", "ACTIVE"}
                /\ ~Get(Get(Get(repo, "architecture", EmptyDict), "files", EmptyDict),
                        "ARCHITECT_CONFIG.json", FALSE)
             THEN deploy_config(dry_run, name, w)
             ELSE Returning(Nothing, FALSE)
    IN  Returning(Then(Then(a, b), c),
                  [archived         |-> IF a.value THEN 1 ELSE 0,
                   branding_fixed   |-> b.value,
                   configs_deployed |-> IF c.value THEN 1 ELSE 0])

\* lines 199-223: the loop over the repos of the report
RECURSIVE CleanupRepos(_, _, _, _)
CleanupRepos(dry_run, repos, actions, w) ==
    IF Len(repos) = 0
    THEN Returning(Nothing, [archived |-> 0, branding_fixed |-> 0, configs_deployed |-> 0])
    ELSE LET one  == CleanupOneRepo(dry_run, Head(repos), actions, w)
             rest == CleanupRepos(dry_run, Tail(repos), actions, w)
         IN  Returning(Then(one, rest),
                       [archived         |-> one.value.archived + rest.value.archived,
                        branding_fixed   |-> one.value.branding_fixed + rest.value.branding_fixed,
                        configs_deployed |-> one.value.configs_deployed
                                             + rest.value.configs_deployed])

\* lines 196-227, for the agent ag
run_from_report(ag, rep, actions, w) ==
    LET done == CleanupRepos(ag.dry_run, Get(rep, "repos", << >>), actions, w)
    IN  Returning(done,
                  [archived         |-> done.value.archived,
                   branding_fixed   |-> done.value.branding_fixed,
                   configs_deployed |-> done.value.configs_deployed,
                   errors           |-> Len(ag.errors) + Len(done.errors),
                   total_actions    |-> Len(ag.actions_taken) + Len(done.logged)])

MaxReportRepos == 2
MaxLogged == 2
MaxSent == 7

\* entries of an audit report, as run_from_report reads them
ReportEntries ==
    {[name |-> "old-prototype", classification |-> [tier |-> "STALE", action |-> "ARCHIVE"],
      is_archived |-> FALSE, branding |-> [compliant |-> TRUE]],
     [name |-> "ArchitectAIPro", classification |-> [tier |-> "CORE", action |-> "KEEP"],
      is_archived |-> FALSE, branding |-> [compliant |-> FALSE],
      architecture |-> [files |-> [f \in {"ARCHITECT_CONFIG.json"} |-> FALSE]]],
     [name |-> "tools", classification |-> [tier |-> "ACTIVE", action |-> "ARCHIVE_OR_DELETE"]]}

CleanupReports ==
    {[repos |-> r] : r \in SeqsUpTo(ReportEntries, MaxReportRepos)} \cup {[owner |-> Owner]}

\* --action after "all" is expanded (lines 253-255)
ActionLists == SUBSET {"archive", "brand", "deploy"}

Networks == [get_ok : BOOLEAN, write_ok : BOOLEAN]

\* the agent after a method: its log entries carry self.dry_run (line 82)
AgentAfter(e) ==
    [agent EXCEPT
        !.actions_taken = @ \o [i \in 1..Len(e.logged) |->
                                    [action |-> e.logged[i], dry_run |-> agent.dry_run]],
        !.errors = @ \o e.errors]

\* agent = CleanupAgent(owner, token, dry_run=dry_run)
ConstructAgent ==
    /\ agent = NoValue
    /\ \E dry_run \in BOOLEAN : agent' = NewCleanupAgent(dry_run)
    /\ sent' = << >>
    /\ UNCHANGED not_cleanup_vars

\* the agent is used until its log or its requests reach the bounds
CanCleanup ==
    /\ agent # NoValue
    /\ Len(agent.actions_taken) < MaxLogged
    /\ Len(sent) < MaxSent

ArchiveRepo ==
    /\ CanCleanup
    /\ \E repo \in ReportEntries, w \in Networks :
           LET e == archive_repo(agent.dry_run, repo.name, w)
           IN  agent' = AgentAfter(e) /\ sent' = sent \o e.sent
    /\ UNCHANGED not_cleanup_vars

FixBranding ==
    /\ CanCleanup
    /\ \E repo \in ReportEntries, w \in Networks :
           LET e == fix_branding(agent.dry_run, repo.name, w)
           IN  agent' = AgentAfter(e) /\ sent' = sent \o e.sent
    /\ UNCHANGED not_cleanup_vars

DeployConfig ==
    /\ CanCleanup
    /\ \E repo \in ReportEntries, w \in Networks :
           LET e == deploy_config(agent.dry_run, repo.name, w)
           IN  agent' = AgentAfter(e) /\ sent' = sent \o e.sent
    /\ UNCHANGED not_cleanup_vars

RunFromReport ==
    /\ CanCleanup
    /\ \E rep \in CleanupReports, actions \in ActionLists, w \in Networks :
           LET e == run_from_report(agent, rep, actions, w)
           IN  agent' = AgentAfter(e) /\ sent' = sent \o e.sent
    /\ UNCHANGED not_cleanup_vars

NextCleanup ==
    \/ ConstructAgent
    \/ ArchiveRepo
    \/ FixBranding
    \/ DeployConfig
    \/ RunFromReport

SpecCleanup == Init /\ [][NextCleanup]_vars

DEFAULT_LIMITS ==
    [github_api |-> [hourly_limit |-> 4500, daily_limit |-> 50000, monthly_limit |-> 500000,
                     cost_per_call |-> 0],
     gemini_api |-> [hourly_limit |-> 50, daily_limit |-> 500, monthly_limit |-> 10000,
                     cost_per_call |-> 350],
     ci_minutes |-> [hourly_limit |-> 30, daily_limit |-> 200, monthly_limit |-> 2000,
                     cost_per_call |-> 8000]]

\* _current_periods() at the hour h
CurrentPeriods(h) ==
    [hour |-> "2026-11-04T" \o (IF h = 0 THEN "00" ELSE IF h = 1 THEN "01" ELSE
                                IF h = 2 THEN "02" ELSE "03"),
     day |-> "2026-11-04",
     month |-> "2026-11"]

\* _get_usage(category, period_key)
GetUsage(data, category, period_key) ==
    Get(Get(Get(data, "usage", EmptyDict), category, EmptyDict), period_key, 0)

\* _set_usage(category, period_key, value)
SetUsage(data, category, period_key, value) ==
    LET usage == Get(data, "usage", EmptyDict)
        of_cat == Get(usage, category, EmptyDict)
        new_cat == [k \in DOMAIN of_cat \cup {period_key} |->
                       IF k = period_key THEN value ELSE of_cat[k]]
    IN  [data EXCEPT !.usage = [c \in DOMAIN usage \cup {category} |->
                                   IF c = category THEN new_cat ELSE usage[c]]]

\* limits.get(name, float("inf")) is above every amount
NoLimit == 1000000

LimitsOf(category) == Get(DEFAULT_LIMITS, category, EmptyDict)

\* lines 108-128
can_spend(data, h, category, amount) ==
    LET limits  == LimitsOf(category)
        periods == CurrentPeriods(h)
    IN  IF GetUsage(data, category, periods.hour) + amount > Get(limits, "hourly_limit", NoLimit)
        THEN FALSE
        ELSE IF GetUsage(data, category, periods.day) + amount
                    > Get(limits, "daily_limit", NoLimit)
        THEN FALSE
        ELSE IF GetUsage(data, category, periods.month) + amount
                    > Get(limits, "monthly_limit", NoLimit)
        THEN FALSE
        ELSE TRUE

\* lines 130-151, cost not given
record(data, h, category, amount) ==
    LET periods == CurrentPeriods(h)
        limits  == LimitsOf(category)
        d1 == SetUsage(data, category, periods.hour,
                       GetUsage(data, category, periods.hour) + amount)
        d2 == SetUsage(d1, category, periods.day,
                       GetUsage(d1, category, periods.day) + amount)
        d3 == SetUsage(d2, category, periods.month,
                       GetUsage(d2, category, periods.month) + amount)
        cost == amount * Get(limits, "cost_per_call", 0)
        d4 == [d3 EXCEPT !.total_cost = @ + cost]
        monthly == GetUsage(d4, category, periods.month)
        monthly_limit == Get(limits, "monthly_limit", NoLimit)
        \* monthly / monthly_limit > 0.8
        alert == [category |-> category, monthly |-> monthly, monthly_limit |-> monthly_limit]
    IN  IF monthly_limit # 0 /\ 10 * monthly > 8 * monthly_limit /\ alert \notin Range(d4.alerts)
        THEN [d4 EXCEPT !.alerts = Append(@, alert)]
        ELSE d4

MaxRecorded == 76
MaxHour == 1

BudgetCategories == {"gemini_api", "ci_minutes", "storage_mb"}
Amounts == {25, 51}

\* what has been recorded this month, over the categories
RecordedThisMonth ==
    LET usage == budget_data.usage
    IN  SumSeq([i \in 1..Len(SortedStrings(DOMAIN usage)) |->
                   GetUsage(budget_data, SortedStrings(DOMAIN usage)[i],
                            CurrentPeriods(0).month)])

CanSpend ==
    /\ \E category \in BudgetCategories, amount \in Amounts :
           can_spend_ret' = [category |-> category, amount |-> amount,
                             value |-> can_spend(budget_data, budget_hour, category, amount)]
    /\ UNCHANGED <<budget_data, budget_hour>>
    /\ UNCHANGED not_budget_vars

Record ==
    /\ \E category \in BudgetCategories, amount \in Amounts :
           /\ RecordedThisMonth + amount <= MaxRecorded
           /\ budget_data' = record(budget_data, budget_hour, category, amount)
    /\ UNCHANGED <<budget_hour, can_spend_ret>>
    /\ UNCHANGED not_budget_vars

\* the clock passes the hour
HourPasses ==
    /\ budget_hour < MaxHour
    /\ budget_hour' = budget_hour + 1
    /\ UNCHANGED <<budget_data, can_spend_ret>>
    /\ UNCHANGED not_budget_vars

NextBudget == CanSpend \/ Record \/ HourPasses

SpecBudget == Init /\ [][NextBudget]_vars

\* C16: after any can_spend and record calls made within one hour, day and
\* month, what is recorded for a category in the current hour, day and month is
\* not above the category's hourly_limit, daily_limit and monthly_limit.
C16_HardLimits ==
    budget_hour = 0 =>
        \A category \in DOMAIN DEFAULT_LIMITS :
            /\ GetUsage(budget_data, category, CurrentPeriods(budget_hour).hour)
                   <= DEFAULT_LIMITS[category].hourly_limit
            /\ GetUsage(budget_data, category, CurrentPeriods(budget_hour).day)
                   <= DEFAULT_LIMITS[category].daily_limit
            /\ GetUsage(budget_data, category, CurrentPeriods(budget_hour).month)
                   <= DEFAULT_LIMITS[category].monthly_limit

(***************************************************************************)
(* api_get and api_get_text called by several workers at once              *)
(* (repo_auditor.py:163-169, 189-194).  `api_call_count += 1` is a read of  *)
(* the global, an addition and a write of the global, and the test that    *)
(* follows reads the global again; another worker may run between any two  *)
(* of them.                                                                *)
(***************************************************************************)
MaxWorkerCalls == 2

\* the calls the enumeration has made, one after the other, when the per-repo
\* audits are handed to the workers
UsedByListing == {MAX_API_CALLS - 3, MAX_API_CALLS - 1}

OtherAuditVars ==
    <<pc, user_repo_pages, page, org_idx, seen, repo_idx, iter, audit_results, summary, report>>

StartWorkers ==
    /\ \A w \in Workers : workers[w].pc = "off"
    /\ \E used \in UsedByListing :
           /\ api_call_count' = used
           /\ http_requests' = used
    /\ workers' = [w \in Workers |-> [workers[w] EXCEPT !.pc = "ready"]]
    /\ UNCHANGED OtherAuditVars
    /\ UNCHANGED <<pure_vars, cleanup_vars, budget_vars, process_vars, server_vars>>

\* line 166 or 191, the read of `api_call_count += 1`
LoadCount(w) ==
    /\ workers[w].pc = "ready"
    /\ workers[w].calls < MaxWorkerCalls
    /\ workers' = [workers EXCEPT ![w] = [pc |-> "loaded", loaded |-> api_call_count,
                                          calls |-> @.calls + 1]]
    /\ UNCHANGED <<api_call_count, http_requests>>
    /\ UNCHANGED OtherAuditVars
    /\ UNCHANGED <<pure_vars, cleanup_vars, budget_vars, process_vars, server_vars>>

\* line 166 or 191, the write of `api_call_count += 1`
StoreCount(w) ==
    /\ workers[w].pc = "loaded"
    /\ api_call_count' = workers[w].loaded + 1
    /\ workers' = [workers EXCEPT ![w].pc = "stored"]
    /\ UNCHANGED http_requests
    /\ UNCHANGED OtherAuditVars
    /\ UNCHANGED <<pure_vars, cleanup_vars, budget_vars, process_vars, server_vars>>

\* lines 167-181 or 192-201: the test against MAX_API_CALLS, then requests.get
TestAndSend(w) ==
    /\ workers[w].pc = "stored"
    /\ http_requests' = IF api_call_count > MAX_API_CALLS
                        THEN http_requests ELSE http_requests + 1
    /\ workers' = [workers EXCEPT ![w].pc = "ready"]
    /\ UNCHANGED api_call_count
    /\ UNCHANGED OtherAuditVars
    /\ UNCHANGED <<pure_vars, cleanup_vars, budget_vars, process_vars, server_vars>>

NextWorkers ==
    \/ StartWorkers
    \/ \E w \in Workers : LoadCount(w)
    \/ \E w \in Workers : StoreCount(w)
    \/ \E w \in Workers : TestAndSend(w)

SpecWorkers == Init /\ [][NextWorkers]_vars

\* C19: when several workers call api_get and api_get_text at the same time,
\* with their reads, writes and tests of the call counter interleaved, the
\* requests sent in all still never number more than MAX_API_CALLS.
C19_NoOverrunAmongWorkers ==
    http_requests <= MAX_API_CALLS

(***************************************************************************)
(* run_audit called again in the same process (repo_auditor.py:59-61,      *)
(* 509-520).  The locals start afresh; the module global api_call_count is *)
(* what the earlier run left.  http_requests counts the requests of the    *)
(* run in progress.                                                        *)
(***************************************************************************)
MaxRuns == 2

\* the first runs after which a further run is followed: the shortest ones, and
\* the ones that used up the budget
ShortRunCalls == 3

RunAgain ==
    /\ pc = "done"
    /\ run.number < MaxRuns
    /\ api_call_count <= ShortRunCalls \/ api_call_count > MAX_API_CALLS
    /\ run' = [number |-> run.number + 1, count_at_start |-> api_call_count]
    /\ pc' = "user_repos"
    /\ page' = 1
    /\ seen' = << >>
    /\ \E n \in {0} \cup LongListings : user_repo_pages' = n
    /\ http_requests' = 0
    /\ org_idx' = 0
    /\ repo_idx' = 0
    /\ iter' = NoValue
    /\ audit_results' = << >>
    /\ summary' = NoValue
    /\ report' = NoValue
    /\ UNCHANGED api_call_count
    /\ UNCHANGED <<pure_vars, cleanup_vars, budget_vars, worker_vars, server_vars>>

NextTwoRuns == Next \/ RunAgain

SpecTwoRuns == Init /\ [][NextTwoRuns]_vars

\* C20: every run of run_audit in a process begins with the whole budget (the
\* call counter at zero), and the api_calls_used of its report is the number of
\* calls made in that run alone.
C20_FreshBudgetEachRun ==
    /\ run.count_at_start = 0
    /\ pc = "done" => report.api_calls_used = api_call_count - run.count_at_start

(***************************************************************************)
(* Further properties of run_audit.                                        *)
(***************************************************************************)
Listing == pc \in {"user_repos", "public_repos", "org_repos"}

\* C21: while the listings are read, the record stored under an owner/name key
\* stays the one stored first: no round of any of the three loops, be it a later
\* source or a later page of the same source, replaces a stored record.
C21_FirstSeenWins ==
    [][Listing =>
          \A i \in 1..Len(seen) : Len(seen') >= i /\ seen'[i] = seen[i]]_vars

\* s is what detect_third_party_services returns for the keys s.services
IsDetectResult(s) ==
    /\ "services" \in DOMAIN s
    /\ s.service_details = ServiceDetails(s.services)
    /\ s.third_party_cost = TotalCost(s.service_details)

\* C22: when classify_repo gives the tier CORE, ACTIVE or DORMANT for services
\* data that detect_third_party_services returned, monthly_burn_estimate is the
\* compute baseline (3 under 30 days since the push, else 0) plus the CI baseline
\* 0 plus the data's third_party_cost, and every detected service that costs
\* something is in burn_breakdown under its label with the cost of the table.
C22_BurnIsBaselinePlusServices ==
    (/\ IsClassifyCall(call)
     /\ ret.tier \in {"CORE", "ACTIVE", "DORMANT"}
     /\ IsDetectResult(call.services)) =>
        /\ ret.monthly_burn_estimate =
               (IF call.staleness.days_since_push < 30 THEN 3 ELSE 0) + 0
               + call.services.third_party_cost
        /\ \A i \in 1..Len(call.services.services) :
               LET info == CostInfo(call.services.services[i])
               IN  info.cost > 0 =>
                       /\ info.label \in DOMAIN ret.burn_breakdown
                       /\ ret.burn_breakdown[info.label] = info.cost

\* a dormant repo, last pushed 30 days ago or more, whose files name a service
\* that costs something
C22_Witness ==
    /\ IsClassifyCall(call)
    /\ ret.tier = "DORMANT"
    /\ call.staleness.days_since_push >= 30
    /\ IsDetectResult(call.services)
    /\ call.services.third_party_cost > 0
    /\ ret.monthly_burn_estimate = call.services.third_party_cost

\* the calls of the run that the budget refused: those made less those sent
RefusedCalls == api_call_count - http_requests

\* C23: in a run that began with the counter at zero, the report's api_calls_used
\* is above MAX_API_CALLS exactly when the budget refused at least one call of
\* the run.
C23_ExhaustionVisible ==
    pc = "done" =>
        /\ report.api_calls_used > MAX_API_CALLS <=> RefusedCalls > 0
        /\ report.api_calls_used > MAX_API_CALLS =>
               RefusedCalls = report.api_calls_used - MAX_API_CALLS

\* a finished run whose listings fitted the budget and whose deep audit of the
\* core repo did not
C23_Witness ==
    /\ pc = "done"
    /\ user_repo_pages = MAX_API_CALLS - 20
    /\ report.api_calls_used > MAX_API_CALLS
    /\ RefusedCalls > 0
    /\ \E i \in 1..Len(report.repos) :
           /\ report.repos[i].classification.tier = "CORE"
           /\ report.repos[i].services = EmptyServices

\* the entries of the report with a tier among `tiers`
NumberInTiers(tiers) ==
    Cardinality({i \in 1..Len(report.repos) : report.repos[i].classification.tier \in tiers})

SixCounters ==
    report.summary.core + report.summary.active + report.summary.stale
    + report.summary.dead + report.summary.forks + report.summary.archived

\* C24 as claimed: the six counters of the summary count every audited repo
\* exactly once, so they sum to total_repos.
C24_CountersSumToTotal ==
    pc = "done" => SixCounters = report.summary.total_repos

\* C24, amended: core, active, stale and dead count the repos by tier (stale the
\* tiers STALE and DORMANT, dead the tiers DEAD and LEGACY_FORK) and leave out
\* the tiers FORK and ARCHIVED; forks and archived count the records' fork and
\* archived flags, whatever the tier.
C24_CountersByTierAndFlag ==
    pc = "done" =>
        /\ report.summary.total_repos = Len(report.repos)
        /\ report.summary.core = NumberInTiers({"CORE"})
        /\ report.summary.active = NumberInTiers({"ACTIVE"})
        /\ report.summary.stale = NumberInTiers({"STALE", "DORMANT"})
        /\ report.summary.dead = NumberInTiers({"DEAD", "LEGACY_FORK"})
        /\ report.summary.core + report.summary.active + report.summary.stale
           + report.summary.dead + NumberInTiers({"FORK", "ARCHIVED"})
               = report.summary.total_repos
        /\ report.summary.forks =
               Cardinality({i \in 1..Len(report.repos) : report.repos[i].is_fork})
        /\ report.summary.archived =
               Cardinality({i \in 1..Len(report.repos) : report.repos[i].is_archived})

\* a finished run over an old fork, counted as dead and as a fork, and a stale
\* repo, counted once
C24_Witness ==
    /\ pc = "done"
    /\ report.summary.total_repos = 2
    /\ NumberInTiers({"LEGACY_FORK"}) = 1
    /\ NumberInTiers({"STALE"}) = 1
    /\ report.summary.dead = 1
    /\ report.summary.forks = 1
    /\ report.summary.stale = 1
    /\ SixCounters = 3

\* the full names of the report's entries whose action is among `actions`
FullNamesWithAction(actions) ==
    {report.repos[i].full_name :
        i \in {j \in 1..Len(report.repos) : report.repos[j].classification.action \in actions}}

IsInjective(seq) == Cardinality(Range(seq)) = Len(seq)

\* C25: after run_audit delete_candidates holds exactly the audited repos whose
\* action is DELETE and archive_candidates exactly those whose action is ARCHIVE
\* or ARCHIVE_OR_DELETE, each once; the lists are disjoint, and neither holds an
\* archived repo or a repo whose name is in the core allowlist.
C25_CandidatesFollowAction ==
    pc = "done" =>
        LET deletes  == report.summary.delete_candidates
            archives == report.summary.archive_candidates
        IN  /\ Range(deletes) = FullNamesWithAction({"DELETE"})
            /\ Range(archives) = FullNamesWithAction({"ARCHIVE", "ARCHIVE_OR_DELETE"})
            /\ IsInjective(deletes)
            /\ IsInjective(archives)
            /\ Range(deletes) \cap Range(archives) = {}
            /\ \A i \in 1..Len(report.repos) :
                   (report.repos[i].is_archived \/ report.repos[i].name \in CORE_REPOS)
                       => report.repos[i].full_name \notin Range(deletes) \cup Range(archives)

\* a finished run with a deletion candidate, an archival candidate and a repo
\* that is in neither list
C25_Witness ==
    /\ pc = "done"
    /\ Len(report.summary.delete_candidates) = 1
    /\ Len(report.summary.archive_candidates) = 1
    /\ \E i \in 1..Len(report.repos) :
           /\ report.repos[i].is_archived \/ report.repos[i].name \in CORE_REPOS
           /\ report.repos[i].full_name \notin
                  Range(report.summary.delete_candidates)
                      \cup Range(report.summary.archive_candidates)

\* the entry that the step recording a result appends to the results
RecordedEntry == audit_results'[Len(audit_results')]

\* the defaults of lines 600-604 were replaced: a deep audit has run for the entry
HasDeepAuditData(entry) ==
    \/ entry.services # EmptyServices
    \/ entry.branding # DefaultBranding
    \/ entry.architecture # DefaultArchitecture
    \/ entry.secrets # DefaultSecrets
    \/ entry.workflows # DefaultWorkflows

\* C26: the final classification of a repo (with the detected services) has the
\* tier, the action and the disk size of its preliminary classification
\* (without services), and every result that carries deep-audit data has the
\* tier CORE, ACTIVE or DORMANT.
C26_TierIgnoresServices ==
    /\ [][(pc = "classify" /\ pc' = "audit") =>
              /\ RecordedEntry.classification.tier = iter.pre_class.tier
              /\ RecordedEntry.classification.action = iter.pre_class.action
              /\ RecordedEntry.classification.disk_mb = iter.pre_class.disk_mb]_vars
    /\ [](\A i \in 1..Len(audit_results) :
              HasDeepAuditData(audit_results[i])
                  => audit_results[i].classification.tier \in {"CORE", "ACTIVE", "DORMANT"})

\* a deep-audited repo with a detected paid service is about to get its final
\* classification, whose burn differs from the preliminary one
C26_Witness ==
    /\ pc = "classify"
    /\ iter.pre_class.tier \in {"CORE", "ACTIVE", "DORMANT"}
    /\ Len(iter.services.services) > 0
    /\ classify_repo(Repos[repo_idx], iter.staleness, iter.services).monthly_burn_estimate
           > iter.pre_class.monthly_burn_estimate

(***************************************************************************)
(* The cleanup agent run on the report of run_audit:                       *)
(* python cleanup_agent.py --owner koreric75 --report docs/audit_report.json *)
(***************************************************************************)
\* the "files" dict of an architecture audit, by path as the report file has it
FilesByPath(files) ==
    [path \in {ArchFiles[i] : i \in 1..Len(files)} |->
        files[CHOOSE i \in 1..Len(files) : ArchFiles[i] = path]]

\* line 245: the report read back from docs/audit_report.json
ReportAsRead ==
    [report EXCEPT
        !.repos = [i \in 1..Len(@) |->
                      [@[i] EXCEPT !.architecture.files = FilesByPath(@)]]]

\* lines 229-257: main(), on the report that run_audit has written
CleanupMain ==
    /\ pc = "done"
    /\ agent = NoValue
    /\ \E execute \in BOOLEAN, actions \in ActionLists, w \in Networks :
           LET ag == NewCleanupAgent(~execute)
               e  == run_from_report(ag, ReportAsRead, actions, w)
           IN  /\ agent' = [ag EXCEPT
                               !.actions_taken = [i \in 1..Len(e.logged) |->
                                                     [action  |-> e.logged[i],
                                                      dry_run |-> ag.dry_run]],
                               !.errors = e.errors]
               /\ sent' = e.sent
    /\ UNCHANGED not_cleanup_vars

NextAuditCleanup == Next \/ CleanupMain

SpecAuditCleanup == Init /\ [][NextAuditCleanup]_vars

\* line 89: the repository a request of the agent is sent for, under --owner
TargetOf(request) == Owner \o "/" \o request.repo

\* the archive requests sent
ArchiveRequests == {i \in 1..Len(sent) : sent[i].method = "PATCH"}

\* C27: every archive request that run_from_report issues in execute mode is
\* for the owner/name of a report entry whose action is ARCHIVE or
\* ARCHIVE_OR_DELETE and which is not archived.
C27_ArchivesWhatReportLists ==
    (agent # NoValue /\ ~agent.dry_run) =>
        \A i \in ArchiveRequests :
            \E j \in 1..Len(report.repos) :
                /\ report.repos[j].full_name = TargetOf(sent[i])
                /\ report.repos[j].classification.action \in {"ARCHIVE", "ARCHIVE_OR_DELETE"}
                /\ ~report.repos[j].is_archived

(***************************************************************************)
(* The dashboard server (dashboard-server.py): the auto-refresh thread     *)
(* started when the module is loaded, and the threads that serve           *)
(* POST /api/refresh.  Both run repo_auditor.py as a subprocess that       *)
(* rewrites static/audit_report.json.                                      *)
(***************************************************************************)
not_server_vars == <<pure_vars, audit_vars, cleanup_vars, budget_vars, worker_vars, process_vars>>

\* line 791, without CHAD_REFRESH_INTERVAL: 4 hours, in seconds
REFRESH_INTERVAL == 4 * 3600

\* range(1, 5): one more attempt
LastAttempt_OneMore == Len(<<1, 2, 3, 4>>)

\* range(1, 4) of line 882 ends after this attempt
LastAttempt == 3

\* lines 883, 896: `with _refresh_lock:` entered, once the lock is free
LoopAcquire ==
    /\ server.loop.pc = "acquire"
    /\ server.lock = "free"
    /\ server' = [server EXCEPT
                     !.lock = "loop",
                     !.loop.pc = "cycle",
                     !.loop.startup_cycles = IF server.loop.phase = "startup" THEN @ + 1 ELSE @]
    /\ UNCHANGED not_server_vars

\* what the loop does with the value of _run_refresh_cycle: the lock is released
\* at the end of the with block; lines 885-889 on startup, line 894 afterwards
AfterCycle(srv, ok) ==
    [srv EXCEPT
        !.lock = "free",
        !.loop = IF @.phase = "startup"
                 THEN IF ok
                      THEN [@ EXCEPT !.pc = "sleep", !.phase = "periodic",
                                     !.wait = REFRESH_INTERVAL, !.succeeded = TRUE]
                      ELSE [@ EXCEPT !.pc = "sleep", !.wait = 15 * srv.loop.attempt]
                 ELSE [@ EXCEPT !.pc = "sleep", !.wait = REFRESH_INTERVAL]]

\* lines 802-805: no token in the environment, the cycle returns False at once
LoopCycleWithoutToken ==
    /\ server.loop.pc = "cycle"
    /\ server' = AfterCycle(server, FALSE)
    /\ UNCHANGED not_server_vars

\* lines 807-829: the auditor subprocess is started
LoopRunAuditor ==
    /\ server.loop.pc = "cycle"
    /\ server' = [server EXCEPT !.loop.pc = "auditing"]
    /\ UNCHANGED not_server_vars

\* lines 830-870: the auditor ends, fails or times out; the pages are generated
\* or not; any exception is caught and gives False
LoopAuditorEnds ==
    /\ server.loop.pc = "auditing"
    /\ \E ok \in BOOLEAN : server' = AfterCycle(server, ok)
    /\ UNCHANGED not_server_vars

\* time.sleep(wait) returns: the next attempt, or the end of the for loop, or
\* the next periodic cycle (lines 882, 892-895)
LoopWake ==
    /\ server.loop.pc = "sleep"
    /\ server' = [server EXCEPT
                     !.loop = IF @.phase = "periodic" THEN [@ EXCEPT !.pc = "acquire"]
                              ELSE IF @.attempt < LastAttempt
                                   THEN [@ EXCEPT !.pc = "acquire", !.attempt = @ + 1]
                                   ELSE [@ EXCEPT !.phase = "periodic",
                                                  !.wait = REFRESH_INTERVAL]]
    /\ UNCHANGED not_server_vars

\* lines 135-166: a POST /api/refresh refused for want of a token (401) or for
\* its owner parameter (400)
HandlerRefuses(h) ==
    /\ server.handlers[h].pc = "idle"
    /\ \E status \in {400, 401} :
           server' = [server EXCEPT !.handlers[h].status = status]
    /\ UNCHANGED not_server_vars

\* lines 168-197: a POST /api/refresh starts the auditor subprocess
HandlerRunAuditor(h) ==
    /\ server.handlers[h].pc = "idle"
    /\ server' = [server EXCEPT !.handlers[h].pc = "auditing"]
    /\ UNCHANGED not_server_vars

\* lines 198-274: the auditor ends; the response is 200, 500 or 504
HandlerAuditorEnds(h) ==
    /\ server.handlers[h].pc = "auditing"
    /\ \E status \in {200, 500, 504} :
           server' = [server EXCEPT !.handlers[h] = [pc |-> "idle", status |-> status]]
    /\ UNCHANGED not_server_vars

LoopStep ==
    \/ LoopAcquire
    \/ LoopCycleWithoutToken
    \/ LoopRunAuditor
    \/ LoopAuditorEnds
    \/ LoopWake

NextServer ==
    \/ LoopAcquire
    \/ LoopCycleWithoutToken
    \/ LoopRunAuditor
    \/ LoopAuditorEnds
    \/ LoopWake
    \/ \E h \in Handlers : HandlerRefuses(h)
    \/ \E h \in Handlers : HandlerRunAuditor(h)
    \/ \E h \in Handlers : HandlerAuditorEnds(h)

SpecServer == Init /\ [][NextServer]_vars

\* the auto-refresh thread is a running thread: it is scheduled, its sleeps end
\* and its subprocesses end or time out
SpecServerFair == SpecServer /\ WF_vars(LoopStep)

\* the auditor subprocesses running
AuditorsRunning ==
    (IF server.loop.pc = "auditing" THEN 1 ELSE 0)
    + Cardinality({h \in Handlers : server.handlers[h].pc = "auditing"})

\* C28: at most one audit refresh is in progress at any time: no auditor
\* subprocess of POST /api/refresh runs while an auto-refresh cycle runs its own,
\* and no two run at once.
C28_OneRefreshAtATime == AuditorsRunning <= 1

PeriodicCycle == server.loop.phase = "periodic" /\ server.loop.pc = "cycle"

\* C30: on startup the auto-refresh loop runs the refresh cycle at most 3 times
\* and stops retrying once a cycle has succeeded; from then on it runs a cycle
\* after every sleep of REFRESH_INTERVAL, again and again, whether the cycles
\* fail or succeed.
C30_RetriesThenPeriodic ==
    /\ [](server.loop.startup_cycles <= 3)
    /\ [](server.loop.succeeded => server.loop.phase = "periodic")
    /\ [][(server.loop.phase = "periodic" /\ server'.loop.pc = "acquire"
              /\ server.loop.pc # "acquire")
             => server.loop.pc = "sleep" /\ server.loop.wait = REFRESH_INTERVAL]_vars
    /\ []<>PeriodicCycle
    /\ []<>(server.loop.phase = "periodic" /\ server.loop.pc = "sleep")

\* a periodic cycle runs after a startup whose third attempt was the first to
\* succeed
C30_Witness ==
    /\ PeriodicCycle
    /\ server.loop.startup_cycles = 3
    /\ server.loop.attempt = 3
    /\ server.loop.succeeded

(***************************************************************************)
(* audit_secrets on its own: any listing of secret names, any failure of   *)
(* the request, the call counter below, at and above the budget.           *)
(***************************************************************************)
SecretNames ==
    {"GEMINI_API_KEY", "OLD_GEMINI_API_KEY_2", "GCP_SA_KEY", "MY_GOOGLE_CREDS", "NPM_TOKEN"}

MaxSecrets == 2

SecretsBody(names) ==
    [total_count |-> Len(names), secrets |-> [i \in 1..Len(names) |-> [name |-> names[i]]]]

SecretsResponses ==
    {Ok(SecretsBody(names)) : names \in SeqsUpTo(SecretNames, MaxSecrets)}
    \cup {Ok([message |-> "Resource not accessible"]), NotFound, ServerError, TimedOut}

CountsAtCall == {0, 1, MAX_API_CALLS - 1, MAX_API_CALLS, MAX_API_CALLS + 1}

SecretsCall ==
    /\ call = NoCall
    /\ \E count \in CountsAtCall, resp \in SecretsResponses :
           /\ call' = [fn |-> "audit_secrets", count |-> count, resp |-> resp]
           /\ ret' = audit_secrets(count, resp).value
           /\ UNCHANGED <<prev_call, prev_ret>>
           /\ UNCHANGED not_pure_vars

NextSecrets == SecretsCall

SpecSecrets == Init /\ [][NextSecrets]_vars

IsSecretsCall(c) == c.fn = "audit_secrets"

\* the secret names the listing gave, none when it could not be fetched (the
\* request refused, failed, or answered without a "secrets" list)
ListedSecrets(c) ==
    IF /\ c.count < MAX_API_CALLS
       /\ ~c.resp.raises
       /\ c.resp.status = 200
       /\ "secrets" \in DOMAIN c.resp.body
    THEN {c.resp.body.secrets[i].name : i \in 1..Len(c.resp.body.secrets)}
    ELSE {}

\* C29 as claimed: has_gemini_key is true exactly when some secret name contains
\* GEMINI_API_KEY.
C29_GeminiKeyBySubstring ==
    IsSecretsCall(call) =>
        (ret.has_gemini_key <=> \E n \in ListedSecrets(call) : Contains(n, "GEMINI_API_KEY"))

\* C29, amended: has_gemini_key is true exactly when a secret is named
\* GEMINI_API_KEY, has_gcp_creds exactly when some secret name contains GCP or
\* GOOGLE; when the listing cannot be fetched both are false and nothing is
\* raised.
C29_ExactKeySubstringCreds ==
    IsSecretsCall(call) =>
        /\ ret.has_gemini_key \in BOOLEAN
        /\ ret.has_gcp_creds \in BOOLEAN
        /\ ret.has_gemini_key <=> "GEMINI_API_KEY" \in ListedSecrets(call)
        /\ ret.has_gcp_creds <=>
               \E n \in ListedSecrets(call) : Contains(n, "GCP") \/ Contains(n, "GOOGLE")
        /\ ListedSecrets(call) = {} => ~ret.has_gemini_key /\ ~ret.has_gcp_creds

\* a listing with a secret whose name contains GEMINI_API_KEY and none with that
\* very name, and with a secret whose name contains GOOGLE
C29_Witness ==
    /\ IsSecretsCall(call)
    /\ ListedSecrets(call) = {"OLD_GEMINI_API_KEY_2", "MY_GOOGLE_CREDS"}
    /\ ~ret.has_gemini_key
    /\ ret.has_gcp_creds

====
